---- MODULE Spec2Model ----
(***************************************************************************)
(* ProdReady: the transformation engine (transform), the core engine       *)
(* (scan, fix, calculateScore) and the parts of the parser utility, the    *)
(* analyzers and the fixers that these call.                               *)
(*                                                                         *)
(* Source text is modelled line by line.  Every line holds one construct,  *)
(* named by a token:                                                       *)
(*   "blank"    an empty line                                              *)
(*   "bad"      text on which @babel/parser gives up (fatal syntax error)  *)
(*   "sqlcat"   db.query("SELECT ... WHERE id = " + id);                   *)
(*   "sqlvar"   db.query(a + b);   (a + chain that starts with two         *)
(*              non-literal parts)                                         *)
(*   "sqlpar"   db.query("SELECT ... WHERE id = ?", [id]);                 *)
(*   "secret"   const apiKey = "sk_live_...";                              *)
(*   "envread"  const //// API_KEY should be set ...                       *)
(*   "envcont"  apiKey = process.env.API_KEY;   (second line of envread)   *)
(*   "sqllit"   db.query("SELECT * FROM users");                           *)
(*   "sqlcat2"  db.query("... id = " + id + " AND name = ?", [name]);      *)
(*   "sqltpl"   db.query(`SELECT ... WHERE id = ${id}`);                   *)
(*   "logcat"   console.log("SELECT * FROM " + table);                     *)
(*   "afn"      async function load() { await fetchData(); }               *)
(*   "aarrow"   const load = async () => await fetchData();                *)
(*   "afntry"   async function f() { try { await g(); } catch (e) {} }     *)
(*   "afncb"    async function f() { await g();                            *)
(*                cb(() => { try { h(); } catch (e) {} }); }               *)
(*   "afnsync"  async function f() { g(); }                                *)
(*   "afnwrap"  app.get('/x', asyncHandler(async (req, res) =>             *)
(*                { await g(); }));                                        *)
(*   "tryafn", "tryarrow", "trycb", "trysync", "trywrap"                   *)
(*              the functions above with the body wrapped in try/catch by  *)
(*              the error-handling fixer                                   *)
(*   "apay"     async function processPayment() { await charge(); }        *)
(*   "trypay", "payafn", "payarrow", "paycb", "paysync", "paywrap"         *)
(*              "apay" and the functions above with the body wrapped in    *)
(*              the try/catch for payment code: the catch logs "Payment    *)
(*              processing failed in ..." and throws                       *)
(*              new Error('Payment processing failed')                     *)
(*   "then"     fetchData().then(process);                                 *)
(*   "thencatch" fetchData().then(process).catch(handle);                  *)
(*   "thenfixed" fetchData().then(process).catch(error => {                *)
(*                 console.error("Promise rejected:", error); });          *)
(*   "cfg"      const config = {                                           *)
(*   "proplit"  apiKey: "secret-key-123",                                  *)
(*   "propenv"  apiKey: process.env.API_KEY,                               *)
(*   "cfgend"   };                                                         *)
(*   "secreq"   const stripe = require('stripe')('sk_live_verysecretkey'); *)
(*   "seccall"  initStripe('sk_live_verysecretkey');                       *)
(*   "secapi"   connect('my-secret-token-value');                          *)
(*   "reqapi", "reqstripe", "callstripe", "callapi"                        *)
(*              the three calls above with process.env.API_SECRET or       *)
(*              process.env.STRIPE_SECRET_KEY in the place of the literal  *)
(*   "cont"     a further line of the statement that starts above it       *)
(* A statement written on one line is followed by no "cont"; the printer   *)
(* lays a function out over several lines.                                 *)
(***************************************************************************)
EXTENDS Integers, Sequences, FiniteSets, TLC

\* the fields of the records below (Issue, AppliedFix, TransformResult, AST
\* node, ...), in the order in which every record lists them
FieldNames ==
  [add |-> 0, analyzer |-> 0, appliedFixes |-> 0, ast |-> 0, body |-> 0, category |-> 0,
   code |-> 0, context |-> 0, del |-> 0, diff |-> 0, error |-> 0, errors |-> 0,
   explanation |-> 0, failed |-> 0, file |-> 0, files |-> 0, fixed |-> 0, id |-> 0, isPaymentCode |-> 0, issueId |-> 0, issues |-> 0, kind |-> 0,
   line |-> 0, message |-> 0, original |-> 0, outcome |-> 0,
   parameters |-> 0, query |-> 0, rec |-> 0, score |-> 0,
   severity |-> 0, success |-> 0, successful |-> 0, summary |-> 0, threw |-> 0,
   total |-> 0, totalIssues |-> 0, transformedCode |-> 0,
   transformedFiles |-> 0, type |-> 0]

\* ---------------------------------------------------------------- bounds
MaxLines == 2
MaxIssues == 2
MaxFileLines == 1
MaxClock == 1
MaxScoreIssues == 6
MaxProjectLines == 3
MaxParts == 4
MaxConstructs == 2
MaxCalls == 2

\* ----------------------------------------------------------------- texts
SourceTokens == {"blank", "bad", "sqlcat", "sqlvar", "secret"}

\* the statements that are functions, as written and as wrapped by the
\* error-handling fixer
FunctionTokens == {"afn", "aarrow", "afntry", "afncb", "afnsync", "afnwrap", "apay"}

\* the functions wrapped with the catch clause for payment code
PaymentWrappedTokens == {"trypay", "payafn", "payarrow", "paycb", "paysync", "paywrap"}

WrappedTokens ==
  {"tryafn", "tryarrow", "trycb", "trysync", "trywrap"} \cup PaymentWrappedTokens

\* the statements that are a promise chain: a .then call, a .then call
\* followed by .catch, and the chain with the .catch the fixer appends
PromiseTokens == {"then", "thencatch", "thenfixed"}

\* an object literal, one property on a line
ObjectTokens == {"cfg", "proplit", "propenv", "cfgend"}

\* calls that pass a secret string literal, and the same calls after the
\* secrets fixer
SecretCallTokens == {"secreq", "seccall", "secapi"}

EnvCallTokens == {"reqapi", "reqstripe", "callstripe", "callapi"}

AllTokens ==
  SourceTokens \cup {"sqlpar", "envread", "envcont"}
    \cup {"sqllit", "sqlcat2", "sqltpl", "logcat", "cont"}
    \cup FunctionTokens \cup WrappedTokens \cup PromiseTokens
    \cup ObjectTokens \cup SecretCallTokens \cup EnvCallTokens

\* isQueryCall: the statements that call query, execute, run, get or all
CallTokens == {"sqlcat", "sqlvar", "sqlpar", "sqllit", "sqlcat2", "sqltpl"}

\* the calls inside a statement: a query-named call with a literal (app.get),
\* the console.error("Anonymous function failed:", error) that the fixer
\* writes for a function without a name, the .then call that is the object of
\* a .catch call, the console.error("Payment processing failed in ...:",
\* error) of the payment catch clause, and any other call
InnerKinds == {"qcall", "anonlog", "thencall", "call", "paylog"}

\* the string literal 'Payment processing failed' of the throw statement, an
\* argument of new Error(...), which is no call
InnerLiterals == {"paylit"}

\* every CallExpression that a traversal meets
AnyCall ==
  CallTokens \cup {"logcat"} \cup PromiseTokens \cup SecretCallTokens \cup EnvCallTokens
    \cup InnerKinds

\* the sources transform is called with: a fatal syntax error anywhere makes
\* the whole text unparsable, so the one-line text "bad" stands for every
\* unparsable text
Texts ==
  UNION {[1..n -> SourceTokens \ {"bad"}] : n \in 0..MaxLines} \cup {<<"bad">>}

\* number of lines of text s that hold token k
Count(s, k) == Cardinality({i \in 1..Len(s) : s[i] = k})

\* ------------------------------------------------------- utils/parser.ts
\* parser.parse with errorRecovery still throws on a fatal syntax error
BabelThrows(text) == \E i \in 1..Len(text) : text[i] = "bad"

Min(a, b) == IF a <= b THEN a ELSE b

Max(a, b) == IF a >= b THEN a ELSE b

\* the lines that the printer gives a statement after its first line
ContLines(kind) ==
  IF kind \in {"afn", "afnsync", "afnwrap", "apay"} THEN 2
  ELSE IF kind = "afntry" THEN 4
  ELSE IF kind = "afncb" THEN 7
  ELSE IF kind \in {"tryafn", "tryarrow", "trysync", "trywrap"} THEN 7
  ELSE IF kind \in {"trypay", "payafn", "payarrow", "paysync", "paywrap"} THEN 7
  ELSE IF kind \in {"trycb", "paycb"} THEN 12
  ELSE IF kind = "thenfixed" THEN 2
  ELSE 0

\* the log call and the throw of the payment catch clause, the call on the
\* given line of the layout
PaymentCatch(line) ==
  <<[kind |-> "paylog", line |-> line], [kind |-> "paylit", line |-> line + 1]>>

\* the calls inside a statement, in traversal order, each with the line of
\* the printed layout on which it starts, counted from the statement's line
InnerCalls(kind) ==
  IF kind \in {"afn", "afnsync", "apay"} THEN <<[kind |-> "call", line |-> 1]>>
  ELSE IF kind \in {"trypay", "payafn", "paysync", "payarrow"}
       THEN <<[kind |-> "call", line |-> 2]>> \o PaymentCatch(4)
  ELSE IF kind = "paycb"
       THEN <<[kind |-> "call", line |-> 2], [kind |-> "call", line |-> 3],
              [kind |-> "call", line |-> 5]>> \o PaymentCatch(9)
  ELSE IF kind = "paywrap"
       THEN <<[kind |-> "qcall", line |-> 0], [kind |-> "call", line |-> 0],
              [kind |-> "call", line |-> 2]>> \o PaymentCatch(4)
  ELSE IF kind = "aarrow" THEN <<[kind |-> "call", line |-> 0]>>
  ELSE IF kind = "afntry" THEN <<[kind |-> "call", line |-> 2]>>
  ELSE IF kind = "afncb"
       THEN <<[kind |-> "call", line |-> 1], [kind |-> "call", line |-> 2],
              [kind |-> "call", line |-> 4]>>
  ELSE IF kind = "afnwrap"
       THEN <<[kind |-> "qcall", line |-> 0], [kind |-> "call", line |-> 0],
              [kind |-> "call", line |-> 1]>>
  ELSE IF kind \in {"tryafn", "trysync"}
       THEN <<[kind |-> "call", line |-> 2], [kind |-> "call", line |-> 4]>>
  ELSE IF kind = "tryarrow"
       THEN <<[kind |-> "call", line |-> 2], [kind |-> "anonlog", line |-> 4]>>
  ELSE IF kind = "trycb"
       THEN <<[kind |-> "call", line |-> 2], [kind |-> "call", line |-> 3],
              [kind |-> "call", line |-> 5], [kind |-> "call", line |-> 9]>>
  ELSE IF kind = "trywrap"
       THEN <<[kind |-> "qcall", line |-> 0], [kind |-> "call", line |-> 0],
              [kind |-> "call", line |-> 2], [kind |-> "anonlog", line |-> 4]>>
  ELSE IF kind \in {"secreq", "reqapi", "reqstripe"} THEN <<[kind |-> "call", line |-> 0]>>
  ELSE IF kind = "then" THEN <<[kind |-> "call", line |-> 0]>>
  ELSE IF kind = "thencatch"
       THEN <<[kind |-> "thencall", line |-> 0], [kind |-> "call", line |-> 0]>>
  ELSE IF kind = "thenfixed"
       THEN <<[kind |-> "thencall", line |-> 0], [kind |-> "call", line |-> 0],
              [kind |-> "call", line |-> 1]>>
  ELSE <<>>

\* the number of "cont" lines that follow line i
RECURSIVE ContsAfter(_, _)
ContsAfter(text, i) ==
  IF i + 1 <= Len(text) /\ text[i + 1] = "cont" THEN 1 + ContsAfter(text, i + 1) ELSE 0

\* the nodes of a text in traversal order, each with the line it starts on:
\* a statement, then the calls inside it; blank lines and continuation lines
\* give no node
RECURSIVE Statements(_, _)
Statements(text, i) ==
  IF i > Len(text) THEN <<>>
  ELSE IF text[i] \in {"blank", "envcont", "cont"} THEN Statements(text, i + 1)
  ELSE LET inner == InnerCalls(text[i])
           room == ContsAfter(text, i)
       IN <<[kind |-> text[i], line |-> i]>>
          \o [k \in 1..Len(inner) |->
                [kind |-> inner[k].kind, line |-> i + Min(inner[k].line, room)]]
          \o Statements(text, i + 1)

MinimalAst == [body |-> <<>>, errors |-> TRUE]

\* parse never throws: the catch turns a fatal error into a minimal AST
parse(text) ==
  IF BabelThrows(text)
  THEN [ast |-> MinimalAst, threw |-> FALSE]
  ELSE [ast |-> [body |-> Statements(text, 1), errors |-> FALSE], threw |-> FALSE]

\* the printer: one statement after the other, no blank lines kept; the
\* declarator that carries a leading line comment is printed on two lines, a
\* function with a block body on one line per statement and brace
PrintNode(node) ==
  IF node.kind = "envread" THEN <<"envread", "envcont">>
  ELSE IF node.kind \in InnerKinds \cup InnerLiterals THEN <<>>
  ELSE <<node.kind>> \o [k \in 1..ContLines(node.kind) |-> "cont"]

RECURSIVE PrintBody(_, _)
PrintBody(body, i) ==
  IF i > Len(body) THEN <<>> ELSE PrintNode(body[i]) \o PrintBody(body, i + 1)

generateCode(ast) == PrintBody(ast.body, 1)

\* diff.createPatch as the number of lines removed and of lines added, for
\* every token that has lines removed or added
createPatch(before, after) ==
  LET toks == {before[i] : i \in 1..Len(before)} \cup {after[i] : i \in 1..Len(after)}
  IN [add |-> [k \in {t \in toks : Count(after, t) > Count(before, t)} |->
                 Count(after, k) - Count(before, k)],
      del |-> [k \in {t \in toks : Count(before, t) > Count(after, t)} |->
                 Count(before, k) - Count(after, k)]]

NoDiff == [add |-> [k \in {} |-> 0], del |-> [k \in {} |-> 0]]

\* ----------------------------------------------------------------- fixers
FixerKinds == {"sql", "sec"}

IssueTypes == {"sql-injection", "hardcoded-secret"}

NoError == "none"

NoFixerMsg == "No fixer available for this issue type"

ParseFailMsg == "Failed to parse code: "

BabelMsg == "Unexpected token"

EndsWithMsg == "Cannot read properties of undefined (reading 'endsWith')"

canFix(fixer, issue) ==
  IF fixer = "sql" THEN issue.type = "sql-injection"
  ELSE IF fixer = "err" THEN issue.type \in {"no-error-handling", "unhandled-promise"}
  ELSE issue.type = "hardcoded-secret"

\* isTargetLine with a tolerance of two lines
isTargetLineWide(nodeLine, targetLine) ==
  IF targetLine = 0 THEN TRUE
  ELSE nodeLine >= targetLine - 2 /\ nodeLine <= targetLine + 2

isTargetLine(nodeLine, targetLine) ==
  IF targetLine = 0 THEN TRUE
  ELSE nodeLine = targetLine
       \/ (nodeLine >= targetLine - 1 /\ nodeLine <= targetLine + 1)

\* the first of the matching nodes in traversal order; 0 if there is none
FirstMatch(hits) ==
  IF hits = {} THEN 0 ELSE CHOOSE i \in hits : \A j \in hits : i <= j

Rewrite(ast, i, kind) ==
  [ast EXCEPT !.body = [ast.body EXCEPT ![i] = [@ EXCEPT !.kind = kind]]]

\* SQLInjectionFixer.fix: the first query call on a target line is
\* rewritten and the traversal stops
SQLInjectionFix(ast, issue) ==
  LET M(n) == /\ n.kind \in CallTokens \/ n.kind = "qcall"
              /\ isTargetLine(n.line, issue.line)
      i == FirstMatch({j \in 1..Len(ast.body) : M(ast.body[j])})
  IN IF i = 0 THEN [ast |-> ast, message |-> NoError, threw |-> FALSE]
     ELSE IF ast.body[i].kind = "sqlvar"
          THEN [ast |-> ast, message |-> EndsWithMsg, threw |-> TRUE]
     ELSE IF ast.body[i].kind \in {"sqlcat", "sqlcat2", "sqltpl"}
          THEN [ast |-> Rewrite(ast, i, "sqlpar"), message |-> NoError, threw |-> FALSE]
     ELSE [ast |-> ast, message |-> NoError, threw |-> FALSE]

\* the callee of a call that passes a secret: require('stripe') is itself a
\* call, initStripe and connect are identifiers
CalleeType(kind) == IF kind = "secreq" THEN "CallExpression" ELSE "Identifier"

CalleeName(kind) ==
  IF kind = "seccall" THEN "initStripe" ELSE IF kind = "secapi" THEN "connect" ELSE ""

\* name.toLowerCase().includes('stripe')
IncludesStripe(name) == name = "initStripe"

\* the parent of the call: the declarator it initialises, or the statement
CallParentType(kind) ==
  IF kind = "secreq" THEN "VariableDeclarator" ELSE "ExpressionStatement"

\* HardcodedSecretsFixer.getEnvVarNameFromContext; none of the callees here
\* names aws or a database
getEnvVarNameFromContext(kind) ==
  IF CalleeType(kind) \in {"MemberExpression", "Identifier"} /\ IncludesStripe(CalleeName(kind))
  THEN "STRIPE_SECRET_KEY"
  ELSE IF CallParentType(kind) = "CallExpression"
  THEN "STRIPE_SECRET_KEY"
  ELSE "API_SECRET"

\* the call with its secret argument replaced by process.env.<name>
WithEnvArgument(kind, name) ==
  IF kind = "secreq" THEN (IF name = "API_SECRET" THEN "reqapi" ELSE "reqstripe")
  ELSE IF name = "STRIPE_SECRET_KEY" THEN "callstripe"
  ELSE "callapi"

\* HardcodedSecretsFixer.fix: the first declarator with a string literal, the
\* first property with a string literal or the first call on a target line
\* ends the traversal; the arguments of the call that look like a secret are
\* replaced
HardcodedSecretsFix(ast, issue) ==
  LET M(n) == /\ n.kind \in {"secret", "proplit"} \/ n.kind \in AnyCall
              /\ isTargetLine(n.line, issue.line)
      i == FirstMatch({j \in 1..Len(ast.body) : M(ast.body[j])})
  IN IF i # 0 /\ ast.body[i].kind = "secret"
     THEN [ast |-> Rewrite(ast, i, "envread"), message |-> NoError, threw |-> FALSE]
     ELSE IF i # 0 /\ ast.body[i].kind = "proplit"
     THEN [ast |-> Rewrite(ast, i, "propenv"), message |-> NoError, threw |-> FALSE]
     ELSE IF i # 0 /\ ast.body[i].kind \in SecretCallTokens
     THEN [ast |-> Rewrite(ast, i, WithEnvArgument(ast.body[i].kind,
                                     getEnvVarNameFromContext(ast.body[i].kind))),
           message |-> NoError, threw |-> FALSE]
     ELSE [ast |-> ast, message |-> NoError, threw |-> FALSE]

\* ErrorHandlingFixer.hasTryCatch: a try statement directly in the body
BodyHasTry(kind) == kind \in {"afntry"} \cup WrappedTokens

\* the function with its body wrapped in try/catch
Wrapped(kind) ==
  IF kind = "afn" THEN "tryafn"
  ELSE IF kind = "aarrow" THEN "tryarrow"
  ELSE IF kind = "afncb" THEN "trycb"
  ELSE IF kind = "afnsync" THEN "trysync"
  ELSE IF kind = "afnwrap" THEN "trywrap"
  ELSE kind

\* the function with its body wrapped in the try/catch for payment code
WrappedPayment(kind) ==
  IF kind = "apay" THEN "trypay"
  ELSE IF kind = "afn" THEN "payafn"
  ELSE IF kind = "aarrow" THEN "payarrow"
  ELSE IF kind = "afncb" THEN "paycb"
  ELSE IF kind = "afnsync" THEN "paysync"
  ELSE IF kind = "afnwrap" THEN "paywrap"
  ELSE kind

\* ErrorHandlingFixer.isPaymentFunction: the function's own name holds
\* payment, charge or stripe
isPaymentFunction(kind) == kind \in {"apay", "trypay"}

\* issue.context?.isPaymentCode || this.isPaymentFunction(node)
isPayment(issue, kind) ==
  \/ "context" \in DOMAIN issue /\ issue.context.isPaymentCode
  \/ isPaymentFunction(kind)

\* ErrorHandlingFixer.isPromiseChain: the call is a .then call
isPromiseChain(node) == node.kind \in {"then", "thencall"}

\* ErrorHandlingFixer.hasCatchInChain: some ancestor of the call is a call of
\* .catch
hasCatchInChain(node) == node.kind = "thencall"

\* ErrorHandlingFixer.addCatchToPromise: the first .then call on a target
\* line that has no .catch call above it becomes the object of a new .catch
\* call and the traversal stops
addCatchToPromise(ast, issue) ==
  LET M(n) == /\ isPromiseChain(n)
              /\ isTargetLine(n.line, issue.line)
              /\ ~hasCatchInChain(n)
      i == FirstMatch({j \in 1..Len(ast.body) : M(ast.body[j])})
  IN IF i # 0
     THEN [ast |-> Rewrite(ast, i, "thenfixed"), message |-> NoError, threw |-> FALSE]
     ELSE [ast |-> ast, message |-> NoError, threw |-> FALSE]

\* ErrorHandlingFixer.fix for a no-error-handling issue: the first async
\* function on a target line whose body has no try statement is wrapped and
\* the traversal stops; for an unhandled-promise issue a .catch is appended
ErrorHandlingFix(ast, issue) ==
  LET M(n) == /\ n.kind \in FunctionTokens \cup WrappedTokens
              /\ isTargetLine(n.line, issue.line)
              /\ ~BodyHasTry(n.kind)
      i == FirstMatch({j \in 1..Len(ast.body) : M(ast.body[j])})
  IN IF i # 0 /\ issue.type = "no-error-handling"
     THEN [ast |-> Rewrite(ast, i, IF isPayment(issue, ast.body[i].kind)
                                   THEN WrappedPayment(ast.body[i].kind)
                                   ELSE Wrapped(ast.body[i].kind)),
           message |-> NoError, threw |-> FALSE]
     ELSE IF issue.type = "unhandled-promise" THEN addCatchToPromise(ast, issue)
     ELSE [ast |-> ast, message |-> NoError, threw |-> FALSE]

fix(fixer, ast, issue) ==
  IF fixer = "sql" THEN SQLInjectionFix(ast, issue)
  ELSE IF fixer = "err" THEN ErrorHandlingFix(ast, issue)
  ELSE HardcodedSecretsFix(ast, issue)

\* ------------------------------------------------- transformation-engine.ts
VARIABLES fixers, tpc, code, issues, sortedIssues, idx, transformedCode, appliedFixes

tvars == <<fixers, tpc, code, issues, sortedIssues, idx, transformedCode, appliedFixes>>

\* core/engine.ts: the analyzers, the files on disk with their permissions,
\* the clock, and the locals of scan and fix
VARIABLES analyzers, fs, perms, now, epc, category, fileIdx, scanIssues, analysis,
          groups, groupIdx, fixApplied, transformedFiles, totalSuccessful,
          totalFailed, fixResult

evars == <<analyzers, fs, perms, now, epc, category, fileIdx, scanIssues, analysis,
           groups, groupIdx, fixApplied, transformedFiles, totalSuccessful,
           totalFailed, fixResult>>

\* calculateScore: the issues it is called with and the score it returns
VARIABLES spc, scoreIssues, score

svars == <<spc, scoreIssues, score>>

\* the AnalysisResult of the scan that follows a fix
VARIABLES reAnalysis

\* TransformationEngine.preview: its position, the index of the issue at hand
\* and the previews collected
VARIABLES ppc, pidx, previews

pvars == <<ppc, pidx, previews>>

\* the locals of a second transform call that runs while the first is
\* suspended at an await, and the outcome of its loop body that is pending
\* while the call itself is suspended
VARIABLES tpc2, code2, issues2, sortedIssues2, idx2, transformedCode2, appliedFixes2,
          pending2

cvars == <<tpc2, code2, issues2, sortedIssues2, idx2, transformedCode2, appliedFixes2,
           pending2>>

\* SQLInjectionFixer.transformBinaryExpression: the parts of the + chain it
\* is called with and what it returns
VARIABLES qpc, parts, queryResult

qvars == <<qpc, parts, queryResult>>

\* the detector run again on the text a transform returned
VARIABLES dpc, redetected

dvars == <<dpc, redetected>>

\* analyze called on its own: the Context it is given and, for every call so
\* far, the analyzer and the issues it returned
VARIABLES context, calls

avars == <<context, calls>>

xvars == <<reAnalysis, pvars, cvars, qvars, dvars, avars>>

vars == <<tvars, evars, svars, xvars>>

FixerGet(fx, type) == IF type \in DOMAIN fx THEN fx[type] ELSE "none"

\* [...issues].sort((a, b) => (b.line || 0) - (a.line || 0)): stable
RECURSIVE InsertByLine(_, _)
InsertByLine(sorted, issue) ==
  IF sorted = <<>> THEN <<issue>>
  ELSE IF Head(sorted).line >= issue.line
       THEN <<Head(sorted)>> \o InsertByLine(Tail(sorted), issue)
       ELSE <<issue>> \o sorted

\* the sort with the comparator turned round: (a.line || 0) - (b.line || 0)
RECURSIVE InsertByLineAsc(_, _)
InsertByLineAsc(sorted, issue) ==
  IF sorted = <<>> THEN <<issue>>
  ELSE IF Head(sorted).line <= issue.line
       THEN <<Head(sorted)>> \o InsertByLineAsc(Tail(sorted), issue)
       ELSE <<issue>> \o sorted

RECURSIVE sortIssuesAscending(_)
sortIssuesAscending(is) ==
  IF is = <<>> THEN <<>>
  ELSE InsertByLineAsc(sortIssuesAscending(SubSeq(is, 1, Len(is) - 1)), is[Len(is)])

\* the sort preceded by a filter that keeps only issues with a truthy line
RECURSIVE sortIssuesDropsLine0(_)
sortIssuesDropsLine0(is) ==
  IF is = <<>> THEN <<>>
  ELSE IF is[Len(is)].line = 0
       THEN sortIssuesDropsLine0(SubSeq(is, 1, Len(is) - 1))
       ELSE InsertByLine(sortIssuesDropsLine0(SubSeq(is, 1, Len(is) - 1)), is[Len(is)])

RECURSIVE sortIssues(_)
sortIssues(is) ==
  IF is = <<>> THEN <<>>
  ELSE InsertByLine(sortIssues(SubSeq(is, 1, Len(is) - 1)), is[Len(is)])

FailedFix(issue, msg) ==
  [diff |-> NoDiff, error |-> msg, issueId |-> issue.id, success |-> FALSE]

\* the loop body with the running text assigned before the fix is applied
AttemptCommitsEarly(fx, tcode, issue) ==
  LET fixer == FixerGet(fx, issue.type) IN
  IF fixer = "none" \/ ~canFix(fixer, issue)
  THEN [code |-> tcode, outcome |-> "nofixer", rec |-> FailedFix(issue, NoFixerMsg)]
  ELSE LET p == parse(tcode)
           r == fix(fixer, p.ast, issue)
           newCode == generateCode(r.ast)
       IN IF r.threw
          THEN [code |-> generateCode(p.ast), outcome |-> "threw",
                rec |-> FailedFix(issue, r.message)]
          ELSE [code |-> newCode, outcome |-> "fixed",
                rec |-> [diff |-> createPatch(tcode, newCode), error |-> NoError,
                         issueId |-> issue.id, success |-> TRUE]]

\* the loop body without the canFix test
AttemptIgnoresCanFix(fx, tcode, issue) ==
  LET fixer == FixerGet(fx, issue.type) IN
  IF fixer = "none"
  THEN [code |-> tcode, outcome |-> "nofixer", rec |-> FailedFix(issue, NoFixerMsg)]
  ELSE LET p == parse(tcode)
           r == fix(fixer, p.ast, issue)
           newCode == generateCode(r.ast)
       IN IF r.threw
          THEN [code |-> tcode, outcome |-> "threw", rec |-> FailedFix(issue, r.message)]
          ELSE [code |-> newCode, outcome |-> "fixed",
                rec |-> [diff |-> createPatch(tcode, newCode), error |-> NoError,
                         issueId |-> issue.id, success |-> TRUE]]

\* the loop body parsing the text transform was called with, not the running text
AttemptParsesOriginal(fx, tcode, issue) ==
  LET fixer == FixerGet(fx, issue.type) IN
  IF fixer = "none" \/ ~canFix(fixer, issue)
  THEN [code |-> tcode, outcome |-> "nofixer", rec |-> FailedFix(issue, NoFixerMsg)]
  ELSE LET p == parse(code)
           r == fix(fixer, p.ast, issue)
           newCode == generateCode(r.ast)
       IN IF r.threw
          THEN [code |-> tcode, outcome |-> "threw", rec |-> FailedFix(issue, r.message)]
          ELSE [code |-> newCode, outcome |-> "fixed",
                rec |-> [diff |-> createPatch(tcode, newCode), error |-> NoError,
                         issueId |-> issue.id, success |-> TRUE]]

\* the loop body with the running text kept in a field of the engine, which
\* every call reads and writes
AttemptOnSharedText(fx, tcode, issue) ==
  LET fixer == FixerGet(fx, issue.type) IN
  IF fixer = "none" \/ ~canFix(fixer, issue)
  THEN [code |-> tcode, outcome |-> "nofixer", rec |-> FailedFix(issue, NoFixerMsg)]
  ELSE LET p == parse(transformedCode)
           r == fix(fixer, p.ast, issue)
           newCode == generateCode(r.ast)
       IN IF r.threw
          THEN [code |-> tcode, outcome |-> "threw", rec |-> FailedFix(issue, r.message)]
          ELSE [code |-> newCode, outcome |-> "fixed",
                rec |-> [diff |-> createPatch(transformedCode, newCode), error |-> NoError,
                         issueId |-> issue.id, success |-> TRUE]]

\* the loop body keeping the reprinted text also where no fixer accepts the
\* issue
AttemptReprintsOnDecline(fx, tcode, issue) ==
  LET fixer == FixerGet(fx, issue.type) IN
  IF fixer = "none" \/ ~canFix(fixer, issue)
  THEN [code |-> generateCode(parse(tcode).ast), outcome |-> "nofixer",
        rec |-> FailedFix(issue, NoFixerMsg)]
  ELSE LET p == parse(tcode)
           r == fix(fixer, p.ast, issue)
           newCode == generateCode(r.ast)
       IN IF r.threw
          THEN [code |-> tcode, outcome |-> "threw", rec |-> FailedFix(issue, r.message)]
          ELSE [code |-> newCode, outcome |-> "fixed",
                rec |-> [diff |-> createPatch(tcode, newCode), error |-> NoError,
                         issueId |-> issue.id, success |-> TRUE]]

\* one pass of the loop body for one issue on the running text
Attempt(fx, tcode, issue) ==
  LET fixer == FixerGet(fx, issue.type) IN
  IF fixer = "none" \/ ~canFix(fixer, issue)
  THEN [code |-> tcode, outcome |-> "nofixer", rec |-> FailedFix(issue, NoFixerMsg)]
  ELSE LET p == parse(tcode)
           r == fix(fixer, p.ast, issue)
           newCode == generateCode(r.ast)
       IN IF p.threw
          THEN [code |-> tcode, outcome |-> "threw", rec |-> FailedFix(issue, BabelMsg)]
          ELSE IF r.threw
          THEN [code |-> tcode, outcome |-> "threw", rec |-> FailedFix(issue, r.message)]
          ELSE [code |-> newCode, outcome |-> "fixed",
                rec |-> [diff |-> createPatch(tcode, newCode), error |-> NoError,
                         issueId |-> issue.id, success |-> TRUE]]

\* the ledger of the outer catch: every issue failed, in the given order
ParseFailure(is) == [i \in 1..Len(is) |-> FailedFix(is[i], ParseFailMsg)]

IssueInputs ==
  UNION {[1..n -> [line : 0..MaxLines, type : IssueTypes]] : n \in 0..MaxIssues}

MkIssues(sel) ==
  [i \in 1..Len(sel) |->
     [category |-> "security", file |-> "test.js", id |-> <<"id", i>>,
      line |-> sel[i].line, severity |-> "high", type |-> sel[i].type]]

RegisterFixer(t, f) ==
  /\ tpc = "idle"
  /\ fixers' = (t :> f) @@ fixers
  /\ UNCHANGED <<tpc, code, issues, sortedIssues, idx, transformedCode, appliedFixes>>
  /\ UNCHANGED <<evars, svars, xvars>>

TransformBegin(c, is) ==
  /\ tpc = "idle"
  /\ code' = c
  /\ issues' = is
  /\ IF parse(c).threw
     THEN /\ tpc' = "done"
          /\ transformedCode' = c
          /\ appliedFixes' = ParseFailure(is)
          /\ sortedIssues' = <<>>
          /\ idx' = 1
     ELSE /\ tpc' = "loop"
          /\ transformedCode' = c
          /\ appliedFixes' = <<>>
          /\ sortedIssues' = sortIssues(is)
          /\ idx' = 1
  /\ UNCHANGED <<fixers, evars, svars, xvars>>

TransformStep ==
  /\ tpc = "loop"
  /\ idx <= Len(sortedIssues)
  /\ LET a == Attempt(fixers, transformedCode, sortedIssues[idx])
     IN /\ transformedCode' = a.code
        /\ appliedFixes' = Append(appliedFixes, a.rec)
  /\ idx' = idx + 1
  /\ UNCHANGED <<fixers, tpc, code, issues, sortedIssues, evars, svars, xvars>>

TransformReturn ==
  /\ tpc = "loop"
  /\ idx > Len(sortedIssues)
  /\ tpc' = "done"
  /\ UNCHANGED <<fixers, code, issues, sortedIssues, idx, transformedCode, appliedFixes>>
  /\ UNCHANGED <<evars, svars, xvars>>

TInit ==
  /\ fixers = <<>>
  /\ tpc = "idle"
  /\ code = <<>>
  /\ issues = <<>>
  /\ sortedIssues = <<>>
  /\ idx = 1
  /\ transformedCode = <<>>
  /\ appliedFixes = <<>>

\* transform as one call: the loop body folded over the sorted issues
RECURSIVE RunAttempts(_, _, _, _, _)
RunAttempts(fx, sorted, i, tcode, ledger) ==
  IF i > Len(sorted) THEN [appliedFixes |-> ledger, transformedCode |-> tcode]
  ELSE LET a == Attempt(fx, tcode, sorted[i])
       IN RunAttempts(fx, sorted, i + 1, a.code, Append(ledger, a.rec))

transform(fx, c, is) ==
  IF parse(c).threw
  THEN [appliedFixes |-> ParseFailure(is), transformedCode |-> c]
  ELSE RunAttempts(fx, sortIssues(is), 1, c, <<>>)

\* ------------------------------ SQLInjectionFixer.transformBinaryExpression
\* A string is the sequence of its pieces: <<"s", i>> is the text of the
\* i-th part, <<"?">> a question mark.  White space is not kept, so trimEnd,
\* trim and the replacements that only change the white space before a
\* question mark leave a string as it is.
Placeholder == <<"?">>

\* the parts of a + chain: "lit" a string literal, "litq" a string literal
\* that ends with a question mark, "var" any other expression
PartKinds == {"lit", "litq", "var"}

PartSeqs == UNION {[1..n -> PartKinds] : n \in 2..MaxParts}

MkParts(ks) == [i \in 1..Len(ks) |-> [id |-> i, kind |-> ks[i]]]

isStringLiteral(part) == part.kind \in {"lit", "litq"}

LiteralValue(part) ==
  IF part.kind = "litq" THEN <<<<"s", part.id>>, Placeholder>> ELSE <<<<"s", part.id>>>>

endsWithPlaceholder(str) == str # <<>> /\ str[Len(str)] = Placeholder

RECURSIVE Join(_)
Join(strs) == IF strs = <<>> THEN <<>> ELSE Head(strs) \o Join(Tail(strs))

NoQuery == [parameters |-> <<>>, query |-> <<>>, threw |-> FALSE]

\* the loop over the parts, then the join
RECURSIVE BuildQuery(_, _, _, _)
BuildQuery(ps, i, queryParts, parameters) ==
  IF i > Len(ps)
  THEN [parameters |-> parameters, query |-> Join(queryParts), threw |-> FALSE]
  ELSE IF isStringLiteral(ps[i])
  THEN LET value == IF i < Len(ps) /\ ~isStringLiteral(ps[i + 1])
                    THEN Append(LiteralValue(ps[i]), Placeholder)
                    ELSE LiteralValue(ps[i])
       IN BuildQuery(ps, i + 1, Append(queryParts, value), parameters)
  ELSE IF i > 1 /\ queryParts = <<>>
  THEN [parameters |-> Append(parameters, ps[i].id), query |-> <<>>, threw |-> TRUE]
  ELSE IF i > 1 /\ ~endsWithPlaceholder(queryParts[Len(queryParts)])
  THEN BuildQuery(ps, i + 1,
         [queryParts EXCEPT ![Len(queryParts)] = Append(@, Placeholder)],
         Append(parameters, ps[i].id))
  ELSE BuildQuery(ps, i + 1, queryParts, Append(parameters, ps[i].id))

transformBinaryExpression(ps) == BuildQuery(ps, 1, <<>>, <<>>)

TransformBinaryExpression ==
  /\ qpc = "idle"
  /\ queryResult' = transformBinaryExpression(parts)
  /\ qpc' = "done"
  /\ UNCHANGED <<tvars, evars, svars, reAnalysis, pvars, cvars, dvars, avars, parts>>

\* ------------------------------------------------- two calls of transform
\* the second call up to its first await: await parse(code)
Transform2Begin(c, is) ==
  /\ tpc2 = "idle"
  /\ code2' = c
  /\ issues2' = is
  /\ IF parse(c).threw
     THEN /\ tpc2' = "done"
          /\ appliedFixes2' = ParseFailure(is)
          /\ sortedIssues2' = <<>>
     ELSE /\ tpc2' = "loop"
          /\ appliedFixes2' = <<>>
          /\ sortedIssues2' = sortIssues(is)
  /\ transformedCode2' = c
  /\ idx2' = 1
  /\ pending2' = <<>>
  /\ UNCHANGED <<tvars, evars, svars, reAnalysis, pvars, qvars, dvars, avars>>

\* the second call from the top of the loop body to the await of fixer.fix:
\* the fixer is looked up, the running text parsed and the fix computed
Transform2Fix ==
  /\ tpc2 = "loop"
  /\ idx2 <= Len(sortedIssues2)
  /\ pending2 = <<>>
  /\ pending2' = <<Attempt(fixers, transformedCode2, sortedIssues2[idx2])>>
  /\ UNCHANGED <<tpc2, code2, issues2, sortedIssues2, idx2, transformedCode2,
                 appliedFixes2>>
  /\ UNCHANGED <<tvars, evars, svars, reAnalysis, pvars, qvars, dvars, avars>>

\* the second call resumed: the text and the record are committed
Transform2Commit ==
  /\ tpc2 = "loop"
  /\ pending2 # <<>>
  /\ transformedCode2' = pending2[1].code
  /\ appliedFixes2' = Append(appliedFixes2, pending2[1].rec)
  /\ idx2' = idx2 + 1
  /\ pending2' = <<>>
  /\ UNCHANGED <<tpc2, code2, issues2, sortedIssues2>>
  /\ UNCHANGED <<tvars, evars, svars, reAnalysis, pvars, qvars, dvars, avars>>

Transform2Return ==
  /\ tpc2 = "loop"
  /\ idx2 > Len(sortedIssues2)
  /\ tpc2' = "done"
  /\ UNCHANGED <<code2, issues2, sortedIssues2, idx2, transformedCode2, appliedFixes2,
                 pending2>>
  /\ UNCHANGED <<tvars, evars, svars, reAnalysis, pvars, qvars, dvars, avars>>

\* ------------------------------------------------------------------ preview
ExplainSql == "Converted string concatenation to parameterized query to prevent SQL injection"

ExplainSec == "Moved hardcoded secret to environment variable for security"

ExplainErr == "Added error handling to prevent crashes and improve reliability"

PreviewFailMsg == "Failed to generate preview: "

Explanation(fixer) ==
  IF fixer = "sql" THEN ExplainSql ELSE IF fixer = "err" THEN ExplainErr ELSE ExplainSec

\* lines.slice(Math.max(0, line - 3), Math.min(lines.length, line + 2))
extractRelevantCode(text, line) ==
  IF line = 0 THEN text
  ELSE SubSeq(text, Max(0, line - 3) + 1, Min(Len(text), line + 2))

\* `- ${original}\n+ ${fixed}`
generateDiff(original, fixed) == <<original, fixed>>

\* the preview method of the three fixers
fixerPreview(fixer, ast, issue) ==
  LET original == generateCode(ast)
      r == fix(fixer, ast, issue)
      fixed == generateCode(r.ast)
  IN [message |-> r.message,
      rec |-> [diff |-> generateDiff(original, fixed),
               explanation |-> Explanation(fixer),
               fixed |-> extractRelevantCode(fixed, issue.line),
               issueId |-> issue.id,
               original |-> extractRelevantCode(original, issue.line)],
      threw |-> r.threw]

FailedPreview(issue, msg) ==
  [diff |-> <<>>, explanation |-> <<PreviewFailMsg, msg>>, fixed |-> <<>>,
   issueId |-> issue.id, original |-> <<>>]

\* the loop body with the fixer asked whether it accepts the issue
PreviewAttemptChecksCanFix(fx, c, issue) ==
  LET fixer == FixerGet(fx, issue.type) IN
  IF fixer = "none" \/ ~canFix(fixer, issue) THEN <<>>
  ELSE LET p == fixerPreview(fixer, parse(c).ast, issue)
       IN IF p.threw THEN <<FailedPreview(issue, p.message)>> ELSE <<p.rec>>

\* one pass of the loop body of preview: the previews it pushes
PreviewAttempt(fx, c, issue) ==
  LET fixer == FixerGet(fx, issue.type) IN
  IF fixer = "none" THEN <<>>
  ELSE LET p == fixerPreview(fixer, parse(c).ast, issue)
       IN IF p.threw THEN <<FailedPreview(issue, p.message)>> ELSE <<p.rec>>

PreviewBegin(c, is) ==
  /\ tpc = "idle"
  /\ ppc = "idle"
  /\ code' = c
  /\ issues' = is
  /\ ppc' = "loop"
  /\ pidx' = 1
  /\ previews' = <<>>
  /\ UNCHANGED <<fixers, tpc, sortedIssues, idx, transformedCode, appliedFixes>>
  /\ UNCHANGED <<evars, svars, reAnalysis, cvars, qvars, dvars, avars>>

PreviewStep ==
  /\ ppc = "loop"
  /\ pidx <= Len(issues)
  /\ previews' = previews \o PreviewAttempt(fixers, code, issues[pidx])
  /\ pidx' = pidx + 1
  /\ UNCHANGED <<tvars, evars, svars, reAnalysis, cvars, qvars, dvars, avars, ppc>>

PreviewReturn ==
  /\ ppc = "loop"
  /\ pidx > Len(issues)
  /\ ppc' = "done"
  /\ UNCHANGED <<tvars, evars, svars, reAnalysis, cvars, qvars, dvars, avars, pidx, previews>>

\* engine.transform(code, issues) called after engine.preview(code, issues)
TransformAfterPreview ==
  /\ ppc = "done"
  /\ TransformBegin(code, issues)

\* --------------------------------------------------------------- analyzers
AnalyzerKinds == {"sql", "sec"}

AnalyzerCategory(a) == IF a = "neh" THEN "reliability" ELSE "security"

Categories == {"security", "reliability"}

\* SQLInjectionAnalyzer.isQueryCall
isQueryCallAnyMethod(node) == node.kind \in AnyCall

isQueryCall(node) == node.kind \in CallTokens \/ node.kind = "qcall"

\* the first argument of a call: a chain of +, a template literal with
\* expressions, or a string literal
FirstArg(kind) ==
  IF kind \in {"sqlcat", "sqlvar", "sqlcat2", "logcat"} THEN "concat"
  ELSE IF kind = "sqltpl" THEN "template"
  ELSE "literal"

\* the call passes a second argument
HasSecondArg(kind) == kind \in {"sqlpar", "sqlcat2"}

\* SQLInjectionAnalyzer.hasStringConcatenation, on the first argument
hasStringConcatenation(node) == FirstArg(node.kind) \in {"concat", "template"}

RECURSIVE SQLInjectionAnalyze(_, _, _)
SQLInjectionAnalyze(body, i, found) ==
  IF i > Len(body) THEN found
  ELSE IF isQueryCall(body[i]) /\ hasStringConcatenation(body[i])
       THEN SQLInjectionAnalyze(body, i + 1,
              Append(found, [category |-> "security", file |-> "current",
                             id |-> <<"sql-injection", Len(found) + 1>>,
                             line |-> body[i].line, severity |-> "critical",
                             type |-> "sql-injection"]))
       ELSE SQLInjectionAnalyze(body, i + 1, found)

\* HardcodedSecretsAnalyzer: the severities of the issues that the visitors
\* report for one statement, in traversal order.  The declaration
\* const apiKey = "sk_live_..." is reported by the VariableDeclarator visitor
\* and again by the StringLiteral visitor; the query text (over 20 characters,
\* letters and special characters) passes looksLikeRandomString, once as a
\* string literal and, when it is itself the first argument, once more by the
\* CallExpression visitor
SecretHits(kind) ==
  IF kind \in {"secret", "secreq", "seccall"} THEN <<"critical", "critical">>
  ELSE IF kind \in {"sqlcat", "sqlcat2"} THEN <<"high">>
  ELSE IF kind \in {"sqlpar", "anonlog", "proplit", "secapi", "paylog"}
       THEN <<"high", "high">>
  ELSE IF kind = "paylit" THEN <<"high">>
  ELSE <<>>

createIssue(line, severity, t) ==
  [category |-> "security", file |-> "current", id |-> <<"hardcoded-secret", t>>,
   line |-> line, severity |-> severity, type |-> "hardcoded-secret"]

RECURSIVE HardcodedSecretsAnalyze(_, _, _)
HardcodedSecretsAnalyze(body, i, t) ==
  IF i > Len(body) THEN <<>>
  ELSE LET hits == SecretHits(body[i].kind)
       IN [k \in 1..Len(hits) |-> createIssue(body[i].line, hits[k], t)]
          \o HardcodedSecretsAnalyze(body, i + 1, t)

\* NoErrorHandlingAnalyzer: the function is async
IsAsync(kind) == kind \in FunctionTokens \cup WrappedTokens

\* NoErrorHandlingAnalyzer.hasAwaitCalls
hasAwaitCalls(kind) ==
  kind \in (FunctionTokens \cup WrappedTokens) \ {"afnsync", "trysync", "paysync"}

\* hasTryCatch with every try statement inside the function counted, those of
\* nested callbacks too
hasTryCatchNested(kind) == kind \in {"afntry", "afnwrap", "afncb"} \cup WrappedTokens

\* NoErrorHandlingAnalyzer.hasTryCatch: a try statement whose function parent
\* is this function, or the function is the argument of asyncHandler
hasTryCatch(kind) == kind \in {"afntry", "afnwrap"} \cup WrappedTokens

\* the parent of a .then call: the statement it makes up, or the member
\* expression x.catch whose object it is
ThenParent(kind) == IF kind = "thencall" THEN "MemberExpression" ELSE "ExpressionStatement"

\* NoErrorHandlingAnalyzer.isPromiseWithoutCatch.  The walk up the chain runs
\* while the parent has a callee that is a member expression, and only a call
\* has a callee; the call is no element of a list, so it has no next sibling
isPromiseWithoutCatch(node) ==
  /\ node.kind \in {"then", "thencall"}
  /\ LET walkFindsCatch == ThenParent(node.kind) = "CallExpression"
     IN ~walkFindsCatch

\* NoErrorHandlingAnalyzer.isPaymentFunction: the function's name, or an
\* identifier inside the function, holds payment, charge or stripe
AnalyzerIsPaymentFunction(kind) == kind \in {"apay", "trypay"}

\* NoErrorHandlingAnalyzer.determineSeverity; both other branches give high
determineSeverity(kind, isPaymentCode) ==
  IF isPaymentCode \/ AnalyzerIsPaymentFunction(kind) THEN "critical" ELSE "high"

\* NoErrorHandlingAnalyzer.analyze with a Context whose isPaymentCode is the
\* last argument.  The issue it pushes has no context field
RECURSIVE NoErrorHandlingAnalyzeIn(_, _, _, _)
NoErrorHandlingAnalyzeIn(body, i, found, isPaymentCode) ==
  IF i > Len(body) THEN found
  ELSE IF IsAsync(body[i].kind) /\ ~hasTryCatch(body[i].kind) /\ hasAwaitCalls(body[i].kind)
       THEN NoErrorHandlingAnalyzeIn(body, i + 1,
              Append(found, [category |-> "reliability", file |-> "current",
                             id |-> <<"no-error-handling", Len(found) + 1>>,
                             line |-> body[i].line,
                             severity |-> determineSeverity(body[i].kind, isPaymentCode),
                             type |-> "no-error-handling"]),
              isPaymentCode)
       ELSE IF isPromiseWithoutCatch(body[i])
       THEN NoErrorHandlingAnalyzeIn(body, i + 1,
              Append(found, [category |-> "reliability", file |-> "current",
                             id |-> <<"unhandled-promise", Len(found) + 1>>,
                             line |-> body[i].line, severity |-> "high",
                             type |-> "unhandled-promise"]),
              isPaymentCode)
       ELSE NoErrorHandlingAnalyzeIn(body, i + 1, found, isPaymentCode)

\* the analyzer under the Context that scan builds: buildContext sets no
\* isPaymentCode
NoErrorHandlingAnalyze(body, i, found) == NoErrorHandlingAnalyzeIn(body, i, found, FALSE)

analyze(a, ast, t) ==
  IF a = "sql" THEN SQLInjectionAnalyze(ast.body, 1, <<>>)
  ELSE IF a = "neh" THEN NoErrorHandlingAnalyze(ast.body, 1, <<>>)
  ELSE HardcodedSecretsAnalyze(ast.body, 1, t)

\* analyze(ast, context) of analyzer a, called at time t with a Context whose
\* isPaymentCode is the last argument
analyzeIn(a, ast, t, isPaymentCode) ==
  IF a = "neh" THEN NoErrorHandlingAnalyzeIn(ast.body, 1, <<>>, isPaymentCode)
  ELSE analyze(a, ast, t)

\* ------------------------------------------------------------ core/engine.ts
Files == <<"a.js", "b.js">>

FileSet == {Files[i] : i \in 1..Len(Files)}

\* the statements a discovered file is made of
FileTokens == {"bad", "sqlcat", "sqlvar", "secret"}

FileTexts == UNION {[1..n -> FileTokens] : n \in 0..MaxFileLines}

Severities == {"critical", "high", "medium", "low"}

Penalty(severity) ==
  IF severity = "critical" THEN 20
  ELSE IF severity = "high" THEN 10
  ELSE IF severity = "medium" THEN 5
  ELSE IF severity = "low" THEN 2
  ELSE 0

RECURSIVE SubtractPenalties(_, _, _)
SubtractPenalties(is, i, sc) ==
  IF i > Len(is) THEN sc
  ELSE SubtractPenalties(is, i + 1, sc - Penalty(is[i].severity))

calculateScoreUnclamped(is) == SubtractPenalties(is, 1, 100)

calculateScore(is) == Max(0, SubtractPenalties(is, 1, 100))

SetFile(is, file) == [k \in 1..Len(is) |-> [is[k] EXCEPT !.file = file]]

\* the analyzers that run on a file, in registration order
RECURSIVE RunAnalyzers(_, _, _, _, _, _)
RunAnalyzers(as, i, cat, file, ast, t) ==
  IF i > Len(as) THEN <<>>
  ELSE (IF cat = "none" \/ AnalyzerCategory(as[i]) = cat
        THEN SetFile(analyze(as[i], ast, t), file) ELSE <<>>)
       \o RunAnalyzers(as, i + 1, cat, file, ast, t)

ParseErrorIssue(file, t) ==
  [category |-> "reliability", file |-> file, id |-> <<"parse-error", t>>,
   line |-> 0, severity |-> "high", type |-> "parse-error"]

\* the body of the loop over the files: the issues it adds
ScanOneFile(as, cat, file, readable, content, t) ==
  IF ~readable THEN <<ParseErrorIssue(file, t)>>
  ELSE LET p == parse(content)
       IN IF p.threw THEN <<ParseErrorIssue(file, t)>>
          ELSE RunAnalyzers(as, 1, cat, file, p.ast, t)

\* a group of its own for every issue
GroupPerIssue(is, i, gs) ==
  [k \in 1..Len(is) |-> [file |-> is[k].file, issues |-> <<is[k]>>]]

\* fix: issues grouped by file in the order the files first occur
RECURSIVE GroupByFile(_, _, _)
GroupByFile(is, i, gs) ==
  IF i > Len(is) THEN gs
  ELSE LET at == {g \in 1..Len(gs) : gs[g].file = is[i].file}
       IN IF at = {}
          THEN GroupByFile(is, i + 1, Append(gs, [file |-> is[i].file, issues |-> <<is[i]>>]))
          ELSE LET g == CHOOSE g \in at : TRUE
               IN GroupByFile(is, i + 1,
                    [gs EXCEPT ![g] = [@ EXCEPT !.issues = Append(@, is[i])]])

CountSuccess(ledger) == Cardinality({j \in 1..Len(ledger) : ledger[j].success})

ReadErrorMsg == "ENOENT: no such file or directory"

WriteErrorMsg == "EACCES: permission denied"

NoAnalysis == [files |-> <<>>, issues |-> <<>>, score |-> 100, totalIssues |-> 0]

NoFixResult ==
  [appliedFixes |-> <<>>,
   summary |-> [failed |-> 0, successful |-> 0, total |-> 0],
   transformedFiles |-> <<>>]

\* the catch of fix: every issue of the file failed with the error's message
FailNone(fileIssues, msg) == <<>>

FailAll(fileIssues, msg) ==
  [k \in 1..Len(fileIssues) |-> FailedFix(fileIssues[k], msg)]

\* registerAnalyzer pushes the analyzer; each analyzer is registered at most
\* once here, which keeps the list finite
RegisterAnalyzer(a) ==
  /\ epc = "idle"
  /\ \A i \in 1..Len(analyzers) : analyzers[i] # a
  /\ analyzers' = Append(analyzers, a)
  /\ UNCHANGED <<fs, perms, now, epc, category, fileIdx, scanIssues, analysis,
                 groups, groupIdx, fixApplied, transformedFiles, totalSuccessful,
                 totalFailed, fixResult>>
  /\ UNCHANGED <<tvars, svars, xvars>>

\* ProdReadyEngine.registerFixer hands the fixer to the transformation engine
EngineRegisterFixer(t, f) ==
  /\ epc = "idle"
  /\ tpc = "idle"
  /\ fixers' = (t :> f) @@ fixers
  /\ UNCHANGED <<tpc, code, issues, sortedIssues, idx, transformedCode, appliedFixes>>
  /\ UNCHANGED <<evars, svars, xvars>>

ScanBegin(cat) ==
  /\ epc = "idle"
  /\ epc' = "scan"
  /\ category' = cat
  /\ fileIdx' = 1
  /\ scanIssues' = <<>>
  /\ UNCHANGED <<analyzers, fs, perms, now, analysis, groups, groupIdx, fixApplied,
                 transformedFiles, totalSuccessful, totalFailed, fixResult>>
  /\ UNCHANGED <<tvars, svars, xvars>>

\* one pass of the loop over the files; dt is the time gone since the file
\* before, in milliseconds; the Date.now() readings taken within one file fall
\* into one millisecond
ScanFile(dt) ==
  /\ epc = "scan"
  /\ fileIdx <= Len(Files)
  /\ now + dt <= MaxClock
  /\ now' = now + dt
  /\ LET file == Files[fileIdx]
     IN scanIssues' = scanIssues \o
          ScanOneFile(analyzers, category, file, perms[file] # "none", fs[file], now')
  /\ fileIdx' = fileIdx + 1
  /\ UNCHANGED <<analyzers, fs, perms, epc, category, analysis, groups, groupIdx,
                 fixApplied, transformedFiles, totalSuccessful, totalFailed, fixResult>>
  /\ UNCHANGED <<tvars, svars, xvars>>

ScanReturn ==
  /\ epc = "scan"
  /\ fileIdx > Len(Files)
  /\ analysis' = [files |-> Files, issues |-> scanIssues,
                  score |-> calculateScore(scanIssues),
                  totalIssues |-> Len(scanIssues)]
  /\ epc' = "scanned"
  /\ category' = "none"
  /\ UNCHANGED <<analyzers, fs, perms, now, fileIdx, scanIssues, groups, groupIdx,
                 fixApplied, transformedFiles, totalSuccessful, totalFailed, fixResult>>
  /\ UNCHANGED <<tvars, svars, xvars>>

FixBegin ==
  /\ epc = "scanned"
  /\ epc' = "fix"
  /\ groups' = GroupByFile(analysis.issues, 1, <<>>)
  /\ groupIdx' = 1
  /\ fixApplied' = <<>>
  /\ transformedFiles' = <<>>
  /\ totalSuccessful' = 0
  /\ totalFailed' = 0
  /\ UNCHANGED <<analyzers, fs, perms, now, category, fileIdx, scanIssues, analysis,
                 fixResult>>
  /\ UNCHANGED <<tvars, svars, xvars>>

\* one pass of the loop over the files with issues: read, transform, write
FixFile ==
  /\ epc = "fix"
  /\ groupIdx <= Len(groups)
  /\ LET g == groups[groupIdx]
         r == transform(fixers, fs[g.file], g.issues)
         good == CountSuccess(r.appliedFixes)
     IN IF perms[g.file] = "none"
        THEN /\ totalFailed' = totalFailed + Len(g.issues)
             /\ fixApplied' = fixApplied \o FailAll(g.issues, ReadErrorMsg)
             /\ UNCHANGED <<fs, transformedFiles, totalSuccessful>>
        ELSE IF perms[g.file] = "r"
        THEN /\ totalFailed' = totalFailed + Len(g.issues)
             /\ fixApplied' = fixApplied \o FailAll(g.issues, WriteErrorMsg)
             /\ UNCHANGED <<fs, transformedFiles, totalSuccessful>>
        ELSE /\ fs' = [fs EXCEPT ![g.file] = r.transformedCode]
             /\ transformedFiles' = (g.file :> r.transformedCode) @@ transformedFiles
             /\ totalSuccessful' = totalSuccessful + good
             /\ totalFailed' = totalFailed + (Len(r.appliedFixes) - good)
             /\ fixApplied' = fixApplied \o r.appliedFixes
  /\ groupIdx' = groupIdx + 1
  /\ UNCHANGED <<analyzers, perms, now, epc, category, fileIdx, scanIssues, analysis,
                 groups, fixResult>>
  /\ UNCHANGED <<tvars, svars, xvars>>

FixReturn ==
  /\ epc = "fix"
  /\ groupIdx > Len(groups)
  /\ fixResult' = [appliedFixes |-> fixApplied,
                   summary |-> [failed |-> totalFailed, successful |-> totalSuccessful,
                                total |-> totalSuccessful + totalFailed],
                   transformedFiles |-> transformedFiles]
  /\ epc' = "fixed"
  /\ UNCHANGED <<analyzers, fs, perms, now, category, fileIdx, scanIssues, analysis,
                 groups, groupIdx, fixApplied, transformedFiles, totalSuccessful,
                 totalFailed>>
  /\ UNCHANGED <<tvars, svars, xvars>>

\* scan as one call: the loop body over the files in discovery order
RECURSIVE ScanFiles(_, _, _, _, _, _)
ScanFiles(as, cat, fsys, prm, t, i) ==
  IF i > Len(Files) THEN <<>>
  ELSE ScanOneFile(as, cat, Files[i], prm[Files[i]] # "none", fsys[Files[i]], t)
       \o ScanFiles(as, cat, fsys, prm, t, i + 1)

scan(as, cat, fsys, prm, t) ==
  LET found == ScanFiles(as, cat, fsys, prm, t, 1)
  IN [files |-> Files, issues |-> found, score |-> calculateScore(found),
      totalIssues |-> Len(found)]

\* engine.analyze(projectPath) called again after fix has returned
Rescan ==
  /\ epc = "fixed"
  /\ reAnalysis' = scan(analyzers, "none", fs, perms, now)
  /\ epc' = "rescanned"
  /\ UNCHANGED <<analyzers, fs, perms, now, category, fileIdx, scanIssues, analysis,
                 groups, groupIdx, fixApplied, transformedFiles, totalSuccessful,
                 totalFailed, fixResult>>
  /\ UNCHANGED <<tvars, svars, pvars, cvars, qvars, dvars, avars>>

\* ------------------------------------------------------- calculateScore
ScoreInputs == UNION {[1..n -> Severities] : n \in 0..MaxScoreIssues}

MkScoreIssues(sevs) ==
  [i \in 1..Len(sevs) |->
     [category |-> "security", file |-> "test.js", id |-> <<"id", i>>,
      line |-> 1, severity |-> sevs[i], type |-> "sql-injection"]]

CalculateScore ==
  /\ spc = "idle"
  /\ score' = calculateScore(scoreIssues)
  /\ spc' = "done"
  /\ UNCHANGED scoreIssues
  /\ UNCHANGED <<tvars, evars, xvars>>

\* ------------------------------------------------------- specifications
EIdle ==
  /\ analyzers = <<>>
  /\ now = 0
  /\ epc = "idle"
  /\ category = "none"
  /\ fileIdx = 1
  /\ scanIssues = <<>>
  /\ analysis = NoAnalysis
  /\ groups = <<>>
  /\ groupIdx = 1
  /\ fixApplied = <<>>
  /\ transformedFiles = <<>>
  /\ totalSuccessful = 0
  /\ totalFailed = 0
  /\ fixResult = NoFixResult

SIdle ==
  /\ spc = "idle"
  /\ scoreIssues = <<>>
  /\ score = 100

RIdle == reAnalysis = NoAnalysis

PIdle ==
  /\ ppc = "idle"
  /\ pidx = 1
  /\ previews = <<>>

CIdle ==
  /\ tpc2 = "idle"
  /\ code2 = <<>>
  /\ issues2 = <<>>
  /\ sortedIssues2 = <<>>
  /\ idx2 = 1
  /\ transformedCode2 = <<>>
  /\ appliedFixes2 = <<>>
  /\ pending2 = <<>>

QIdle ==
  /\ qpc = "idle"
  /\ parts = <<>>
  /\ queryResult = NoQuery

DIdle ==
  /\ dpc = "idle"
  /\ redetected = <<>>

AIdle ==
  /\ context = [isPaymentCode |-> FALSE]
  /\ calls = <<>>

XIdle == RIdle /\ PIdle /\ CIdle /\ QIdle /\ DIdle /\ AIdle

NoFiles ==
  /\ fs = [f \in FileSet |-> <<>>]
  /\ perms = [f \in FileSet |-> "rw"]

\* the transformation engine on its own
Init == TInit /\ EIdle /\ NoFiles /\ SIdle /\ XIdle

Next ==
  \/ tpc = "idle" /\ \E t \in IssueTypes, f \in FixerKinds : RegisterFixer(t, f)
  \/ tpc = "idle" /\ \E c \in Texts, sel \in IssueInputs : TransformBegin(c, MkIssues(sel))
  \/ TransformStep
  \/ TransformReturn

Spec == Init /\ [][Next]_vars

\* scan and fix over a project of two files
EngineInit ==
  /\ TInit /\ EIdle /\ SIdle /\ XIdle
  /\ fs \in [FileSet -> FileTexts]
  /\ perms \in [FileSet -> {"rw", "r", "none"}]
  /\ \A f \in FileSet : perms[f] = "none" => fs[f] = <<>>

EngineNext ==
  \/ epc = "idle" /\ \E a \in AnalyzerKinds : RegisterAnalyzer(a)
  \/ epc = "idle" /\ \E f \in FixerKinds :
       EngineRegisterFixer(IF f = "sql" THEN "sql-injection" ELSE "hardcoded-secret", f)
  \/ \E cat \in {"none"} \cup Categories : ScanBegin(cat)
  \/ \E dt \in {0, 1} : ScanFile(dt)
  \/ ScanReturn
  \/ FixBegin
  \/ FixFile
  \/ FixReturn

SpecEngine == EngineInit /\ [][EngineNext]_vars

\* scan, fix and scan again over a project whose first file holds statements
\* of every kind, with the three analyzers and the three fixers registered as
\* the integration tests register them
ProjectTokens == {"blank", "sqlcat", "secret", "afn", "aarrow", "afnsync", "cont"}

\* a continuation line follows a line of the statement it continues
Continues(text) ==
  \A i \in 1..Len(text) : text[i] = "cont" => (i > 1 /\ text[i - 1] # "blank")

ProjectTexts ==
  {text \in UNION {[1..n -> ProjectTokens] : n \in 0..MaxProjectLines} : Continues(text)}

AllAnalyzers == <<"sql", "neh", "sec">>

AllFixers ==
  [t \in {"sql-injection", "no-error-handling", "hardcoded-secret"} |->
     IF t = "sql-injection" THEN "sql"
     ELSE IF t = "no-error-handling" THEN "err" ELSE "sec"]

ProjectInit ==
  /\ tpc = "idle" /\ code = <<>> /\ issues = <<>> /\ sortedIssues = <<>>
  /\ idx = 1 /\ transformedCode = <<>> /\ appliedFixes = <<>>
  /\ fixers = AllFixers
  /\ now = 0 /\ epc = "idle" /\ category = "none" /\ fileIdx = 1
  /\ scanIssues = <<>> /\ analysis = NoAnalysis /\ groups = <<>> /\ groupIdx = 1
  /\ fixApplied = <<>> /\ transformedFiles = <<>> /\ totalSuccessful = 0
  /\ totalFailed = 0 /\ fixResult = NoFixResult
  /\ analyzers = AllAnalyzers
  /\ \E c \in ProjectTexts : fs = (Files[1] :> c) @@ (Files[2] :> <<>>)
  /\ perms = [f \in FileSet |-> "rw"]
  /\ SIdle /\ XIdle

ProjectNext ==
  \/ ScanBegin("none")
  \/ \E dt \in {0, 1} : ScanFile(dt)
  \/ ScanReturn
  \/ FixBegin
  \/ FixFile
  \/ FixReturn
  \/ Rescan

SpecProject == ProjectInit /\ [][ProjectNext]_vars

\* calculateScore on its own, over every list of up to MaxScoreIssues issues
\* the issues the two security analyzers report for a file
Detected(file, c) == ScanOneFile(<<"sql", "sec">>, "none", file, TRUE, c, 0)

SecurityFixers == ("sql-injection" :> "sql") @@ ("hardcoded-secret" :> "sec")

\* two files transformed by two calls on one engine, the second started
\* and resumed at any await of the first and the other way round
ConcurrentInit ==
  /\ fixers = SecurityFixers
  /\ tpc = "idle"
  /\ code = <<>>
  /\ issues = <<>>
  /\ sortedIssues = <<>>
  /\ idx = 1
  /\ transformedCode = <<>>
  /\ appliedFixes = <<>>
  /\ EIdle
  /\ NoFiles
  /\ SIdle
  /\ XIdle

ConcurrentNext ==
  \/ /\ tpc = "idle"
     /\ \E c \in FileTexts : TransformBegin(c, Detected(Files[1], c))
  \/ TransformStep
  \/ TransformReturn
  \/ /\ tpc2 = "idle"
     /\ \E c \in FileTexts : Transform2Begin(c, Detected(Files[2], c))
  \/ Transform2Fix
  \/ Transform2Commit
  \/ Transform2Return

SpecConcurrent == ConcurrentInit /\ [][ConcurrentNext]_vars

\* the issues the three analyzers report for a file
DetectedAll(file, c) == ScanOneFile(AllAnalyzers, "none", file, TRUE, c, 0)

\* transform called, step by step, as fix calls it: on the text of a file
\* with the issues the scan reported for it
RepairInit ==
  /\ fixers = AllFixers
  /\ tpc = "idle"
  /\ code = <<>>
  /\ issues = <<>>
  /\ sortedIssues = <<>>
  /\ idx = 1
  /\ transformedCode = <<>>
  /\ appliedFixes = <<>>
  /\ EIdle
  /\ NoFiles
  /\ SIdle
  /\ XIdle

RepairNext ==
  \/ /\ tpc = "idle"
     /\ \E c \in ProjectTexts : TransformBegin(c, DetectedAll(Files[1], c))
  \/ TransformStep
  \/ TransformReturn

SpecRepair == RepairInit /\ [][RepairNext]_vars

\* the statements of the analyzers' test sources
DetectTokens ==
  {"blank", "bad", "cont", "secret", "logcat",
   "sqlcat", "sqlvar", "sqlpar", "sqllit", "sqlcat2", "sqltpl",
   "afn", "aarrow", "afntry", "afncb", "afnsync", "afnwrap",
   "then", "thencatch", "thenfixed"}

DetectTexts ==
  {text \in UNION {[1..n -> DetectTokens] : n \in 0..MaxLines} : Continues(text)}

\* a scan of one source file with the three analyzers registered
DetectInit ==
  /\ TInit
  /\ now = 0 /\ epc = "idle" /\ category = "none" /\ fileIdx = 1
  /\ scanIssues = <<>> /\ analysis = NoAnalysis /\ groups = <<>> /\ groupIdx = 1
  /\ fixApplied = <<>> /\ transformedFiles = <<>> /\ totalSuccessful = 0
  /\ totalFailed = 0 /\ fixResult = NoFixResult
  /\ analyzers = AllAnalyzers
  /\ \E c \in DetectTexts : fs = (Files[1] :> c) @@ (Files[2] :> <<>>)
  /\ perms = [f \in FileSet |-> "rw"]
  /\ SIdle /\ XIdle

DetectNext ==
  \/ ScanBegin("none")
  \/ \E dt \in {0, 1} : ScanFile(dt)
  \/ ScanReturn

SpecDetect == DetectInit /\ [][DetectNext]_vars

\* transformBinaryExpression on its own, over every chain of 2 to MaxParts
\* parts
ParamsInit ==
  /\ TInit
  /\ EIdle
  /\ NoFiles
  /\ SIdle
  /\ RIdle /\ PIdle /\ CIdle /\ DIdle /\ AIdle
  /\ qpc = "idle"
  /\ queryResult = NoQuery
  /\ \E ks \in PartSeqs : parts = MkParts(ks)

ParamsNext == TransformBinaryExpression

SpecParams == ParamsInit /\ [][ParamsNext]_vars

\* the detector run again on the text that a transform has returned
Redetect ==
  /\ tpc = "done"
  /\ dpc = "idle"
  /\ redetected' = analyze("neh", parse(transformedCode).ast, 0)
  /\ dpc' = "done"
  /\ UNCHANGED <<tvars, evars, svars, reAnalysis, pvars, cvars, qvars, avars>>

\* the functions of the detector's test sources
FixpointTokens ==
  {"blank", "cont", "afn", "aarrow", "afncb", "afnsync", "afntry", "afnwrap"}

FixpointTexts ==
  {text \in UNION {[1..n -> FixpointTokens] : n \in 0..MaxLines} : Continues(text)}

\* the no-error-handling issues the detector reports for a source
DetectedUnhandled(file, c) == ScanOneFile(<<"neh">>, "none", file, TRUE, c, 0)

\* detect, fix one of the reported issues, detect again
FixpointInit ==
  /\ fixers = ("no-error-handling" :> "err")
  /\ tpc = "idle"
  /\ code = <<>>
  /\ issues = <<>>
  /\ sortedIssues = <<>>
  /\ idx = 1
  /\ transformedCode = <<>>
  /\ appliedFixes = <<>>
  /\ EIdle
  /\ NoFiles
  /\ SIdle
  /\ XIdle

FixpointNext ==
  \/ /\ tpc = "idle"
     /\ \E c \in FixpointTexts :
          \E k \in 1..Len(DetectedUnhandled(Files[1], c)) :
            TransformBegin(c, <<DetectedUnhandled(Files[1], c)[k]>>)
  \/ TransformStep
  \/ TransformReturn
  \/ Redetect

SpecFixpoint == FixpointInit /\ [][FixpointNext]_vars

\* the constructs of the fixers' test sources, each as its lines
FixerConstructs ==
  {<<"blank">>, <<"secret">>, <<"sqlcat">>, <<"afn">>, <<"aarrow">>, <<"then">>,
   <<"thencatch">>, <<"secreq">>, <<"seccall">>, <<"secapi">>,
   <<"cfg", "proplit", "proplit", "cfgend">>}

\* sources of up to MaxConstructs constructs
FixerTexts ==
  UNION {{Join(cs) : cs \in [1..n -> FixerConstructs]} : n \in 0..MaxConstructs}

\* the three fixers, the error-handling fixer registered for both types it
\* accepts
FixerRegistry == AllFixers @@ ("unhandled-promise" :> "err")

\* an issue of type t at line l, handed to transform n times
MkFixerIssues(t, l, n) ==
  [i \in 1..n |->
     [category |-> IF t \in {"sql-injection", "hardcoded-secret"}
                   THEN "security" ELSE "reliability",
      file |-> "test.js", id |-> <<"id", i>>, line |-> l, severity |-> "high",
      type |-> t]]

\* one fixer applied to a source for one issue, once or twice in a row
FixersInit ==
  /\ fixers = FixerRegistry
  /\ tpc = "idle"
  /\ code = <<>>
  /\ issues = <<>>
  /\ sortedIssues = <<>>
  /\ idx = 1
  /\ transformedCode = <<>>
  /\ appliedFixes = <<>>
  /\ EIdle
  /\ NoFiles
  /\ SIdle
  /\ XIdle

FixersNext ==
  \/ /\ tpc = "idle"
     /\ \E c \in FixerTexts, t \in DOMAIN FixerRegistry, n \in 1..2 :
          \E l \in 0..Len(c) : TransformBegin(c, MkFixerIssues(t, l, n))
  \/ TransformStep
  \/ TransformReturn

SpecFixers == FixersInit /\ [][FixersNext]_vars

\* the constructs of the sources that the analyzers are called on
AnalyzeConstructs ==
  {<<"blank">>, <<"afn">>, <<"apay">>, <<"aarrow">>, <<"secret">>, <<"then">>}

AnalyzeTexts ==
  UNION {{Join(cs) : cs \in [1..n -> AnalyzeConstructs]} : n \in 0..MaxConstructs}

\* a source, a Context with or without isPaymentCode, the three fixers
AnalyzeInit ==
  /\ fixers = FixerRegistry
  /\ tpc = "idle"
  /\ code \in AnalyzeTexts
  /\ issues = <<>>
  /\ sortedIssues = <<>>
  /\ idx = 1
  /\ transformedCode = <<>>
  /\ appliedFixes = <<>>
  /\ EIdle
  /\ NoFiles
  /\ SIdle
  /\ RIdle /\ PIdle /\ CIdle /\ QIdle /\ DIdle
  /\ context \in [isPaymentCode : BOOLEAN]
  /\ calls = <<>>

\* analyzer a is called on the parsed source with the Context, dt
\* milliseconds after the call before
AnalyzeCall(a, dt) ==
  /\ tpc = "idle"
  /\ Len(calls) < MaxCalls
  /\ now + dt <= MaxClock
  /\ now' = now + dt
  /\ calls' = Append(calls,
       [analyzer |-> a,
        issues |-> analyzeIn(a, parse(code).ast, now', context.isPaymentCode)])
  /\ UNCHANGED <<analyzers, fs, perms, epc, category, fileIdx, scanIssues, analysis,
                 groups, groupIdx, fixApplied, transformedFiles, totalSuccessful,
                 totalFailed, fixResult>>
  /\ UNCHANGED <<tvars, svars, reAnalysis, pvars, cvars, qvars, dvars, context>>

\* transform is called with the source and the issues of the last call
FixDetected ==
  /\ calls # <<>>
  /\ TransformBegin(code, calls[Len(calls)].issues)

\* transform is called with an issue written by hand that carries a context,
\* as in the fixer's test for payment code
FixHandMade(l, b) ==
  TransformBegin(code,
    <<[category |-> "reliability", context |-> [isPaymentCode |-> b],
       file |-> "test.js", id |-> <<"id", 1>>, line |-> l, severity |-> "critical",
       type |-> "no-error-handling"]>>)

AnalyzeNext ==
  \/ \E a \in {AllAnalyzers[i] : i \in 1..Len(AllAnalyzers)}, dt \in {0, 1} :
       AnalyzeCall(a, dt)
  \/ FixDetected
  \/ tpc = "idle" /\ \E l \in 1..Len(code), b \in BOOLEAN : FixHandMade(l, b)
  \/ TransformStep
  \/ TransformReturn

SpecAnalyze == AnalyzeInit /\ [][AnalyzeNext]_vars

\* the preview test: fixers registered, then preview, then transform of the
\* same source and issues
PreviewInit ==
  /\ TInit
  /\ EIdle
  /\ NoFiles
  /\ SIdle
  /\ XIdle

PreviewNext ==
  \/ \E t \in IssueTypes, f \in FixerKinds : ppc = "idle" /\ RegisterFixer(t, f)
  \/ /\ tpc = "idle"
     /\ ppc = "idle"
     /\ \E c \in FileTexts, sel \in IssueInputs : PreviewBegin(c, MkIssues(sel))
  \/ PreviewStep
  \/ PreviewReturn
  \/ TransformAfterPreview
  \/ TransformStep
  \/ TransformReturn

SpecPreview == PreviewInit /\ [][PreviewNext]_vars

ScoreInit ==
  /\ TInit /\ EIdle /\ NoFiles /\ XIdle
  /\ spc = "idle"
  /\ scoreIssues \in {MkScoreIssues(sevs) : sevs \in ScoreInputs}
  /\ score = 100

ScoreNext == CalculateScore

SpecScore == ScoreInit /\ [][ScoreNext]_vars

\* ------------------------------------------------------------ properties
Successes == {j \in 1..Len(appliedFixes) : appliedFixes[j].success}

Failures == {j \in 1..Len(appliedFixes) : ~appliedFixes[j].success}

RecordsOf(id) == {j \in 1..Len(appliedFixes) : appliedFixes[j].issueId = id}

IssueOf(id) == issues[CHOOSE k \in 1..Len(issues) : issues[k].id = id]

FixedTokens == {"sqlpar", "envread", "envcont"}

\* the fixer that transform finds for the issue it is about to attempt
CurrentIssue == sortedIssues[idx]

CurrentFixer == FixerGet(fixers, CurrentIssue.type)

AtIssue == tpc = "loop" /\ idx <= Len(sortedIssues)

Declined == CurrentFixer = "none" \/ ~canFix(CurrentFixer, CurrentIssue)

CurrentFix == fix(CurrentFixer, parse(transformedCode).ast, CurrentIssue)

\* C1: a transform that has returned holds exactly one AppliedFix per input
\* issue, with that issue's id; a failure is a record with success = FALSE
\* and an error, never an exception; while the loop runs, one record has been
\* written per issue visited and a next step is always possible
C1_OneRecordPerIssue ==
  /\ tpc = "done" =>
       /\ Len(appliedFixes) = Len(issues)
       /\ \A i \in 1..Len(issues) : Cardinality(RecordsOf(issues[i].id)) = 1
       /\ \A j \in 1..Len(appliedFixes) :
            appliedFixes[j].success <=> appliedFixes[j].error = NoError
  /\ tpc = "loop" =>
       /\ idx <= Len(sortedIssues) + 1
       /\ Len(appliedFixes) = idx - 1
       /\ Len(sortedIssues) = Len(issues)

C1_Witness ==
  /\ tpc = "done"
  /\ Len(issues) >= 2
  /\ Successes # {}
  /\ \E j \in Failures : appliedFixes[j].error = NoFixerMsg
  /\ \E i \in 1..Len(issues) : issues[i].line = 0

\* C2: for an unparsable source every issue is recorded as failed and the
\* returned text is the original text
C2_UnparsableReturnsOriginal ==
  (tpc = "done" /\ BabelThrows(code)) =>
    /\ transformedCode = code
    /\ Len(appliedFixes) = Len(issues)
    /\ Successes = {}

\* C3: when the fixer throws for the issue at hand, the step appends a failed
\* record with the exception message, leaves the running text as it was (the
\* original text when nothing succeeded before) and moves on to the next issue
C3_FixThrowsIsRecorded ==
  [][(AtIssue /\ ~Declined /\ CurrentFix.threw) =>
       /\ appliedFixes' = Append(appliedFixes, FailedFix(CurrentIssue, CurrentFix.message))
       /\ transformedCode' = transformedCode
       /\ (Successes = {} => transformedCode' = code)
       /\ idx' = idx + 1
       /\ tpc' = "loop"]_vars

C3_Witness ==
  /\ tpc = "done"
  /\ Len(appliedFixes) = 2
  /\ appliedFixes[1].error = EndsWithMsg
  /\ appliedFixes[2].success
  /\ transformedCode # code

\* C4: when no fixer is registered for the type of the issue at hand, or the
\* registered fixer declines it, the step appends a failed record with the
\* no-fixer error, leaves the running text unchanged and moves on
C4_NoFixerIsRecorded ==
  [][(AtIssue /\ Declined) =>
       /\ appliedFixes' = Append(appliedFixes, FailedFix(CurrentIssue, NoFixerMsg))
       /\ transformedCode' = transformedCode
       /\ idx' = idx + 1
       /\ tpc' = "loop"]_vars

C4_Witness ==
  /\ tpc = "done"
  /\ Len(appliedFixes) = 2
  /\ \A j \in 1..2 : appliedFixes[j].error = NoFixerMsg
  /\ \E i \in 1..2 : issues[i].type \notin DOMAIN fixers
  /\ \E i \in 1..2 : /\ issues[i].type \in DOMAIN fixers
                     /\ ~canFix(fixers[issues[i].type], issues[i])

\* C5: the ledger, which lists the attempts in the order they were made,
\* never has an issue of a smaller line before an issue of a larger line
C5_BottomUpOrder ==
  \A i, j \in 1..Len(appliedFixes) :
    i < j => IssueOf(appliedFixes[i].issueId).line >= IssueOf(appliedFixes[j].issueId).line

C5_Witness ==
  /\ tpc = "done"
  /\ Len(issues) = 2
  /\ issues[1].line < issues[2].line
  /\ appliedFixes[1].issueId = issues[2].id
  /\ appliedFixes[2].issueId = issues[1].id

\* the lines of token k that a patch adds
AddedLines(d, k) == IF k \in DOMAIN d.add THEN d.add[k] ELSE 0

RECURSIVE AddedSoFar(_, _)
AddedSoFar(k, j) ==
  IF j = 0 THEN 0
  ELSE AddedSoFar(k, j - 1) + (IF appliedFixes[j].success THEN AddedLines(appliedFixes[j].diff, k) ELSE 0)

Scanned == {Files[i] : i \in 1..(fileIdx - 1)}

IssuesOfFile(is, file) == {k \in 1..Len(is) : is[k].file = file}

IsParseError(issue, file) ==
  /\ issue.type = "parse-error"
  /\ issue.severity = "high"
  /\ issue.line = 0
  /\ issue.file = file

\* C7: a readable file whose content cannot be parsed gives, once scan has been
\* through it, one parse-error issue of severity high at line 0 carrying the
\* file, and scan goes on through the remaining files
C7_UnparsableFileIsReported ==
  epc \in {"scan", "scanned"} =>
    \A f \in Scanned :
      (perms[f] # "none" /\ BabelThrows(fs[f])) =>
        Cardinality({k \in 1..Len(scanIssues) : IsParseError(scanIssues[k], f)}) = 1

\* C9: no two issues of the AnalysisResult that scan returns share an id
C9_IssueIdsAreUnique ==
  epc = "scanned" =>
    \A i, j \in 1..Len(analysis.issues) :
      analysis.issues[i].id = analysis.issues[j].id => i = j

\* --------------------------------------------- properties of calculateScore
CountSeverity(is, severity) ==
  Cardinality({k \in 1..Len(is) : is[k].severity = severity})

ClosedForm(is) ==
  Max(0, 100 - 20 * CountSeverity(is, "critical") - 10 * CountSeverity(is, "high")
           - 5 * CountSeverity(is, "medium") - 2 * CountSeverity(is, "low"))

Reverse(is) == [k \in 1..Len(is) |-> is[Len(is) + 1 - k]]

Rotate(is) == IF is = <<>> THEN is ELSE Append(Tail(is), Head(is))

RECURSIVE GroupOffset(_, _)
GroupOffset(gs, g) == IF g = 1 THEN 0 ELSE GroupOffset(gs, g - 1) + Len(gs[g - 1].issues)

\* the records that fix wrote for the g-th file
GroupRecords(g) ==
  SubSeq(fixResult.appliedFixes, GroupOffset(groups, g) + 1,
         GroupOffset(groups, g) + Len(groups[g].issues))

IdsOf(is) == {is[k].id : k \in 1..Len(is)}

WithId(is, id) == Cardinality({k \in 1..Len(is) : is[k].id = id})

WithIssueId(recs, id) == Cardinality({k \in 1..Len(recs) : recs[k].issueId = id})

\* C10: a fix that has returned holds one record per issue of the
\* AnalysisResult, file by file; summary.total = summary.successful +
\* summary.failed = the number of issues; every issue of a file that could not
\* be read or written is failed, and the files that could are transformed
C10_FixAccountsForEveryIssue ==
  epc = "fixed" =>
    /\ Len(fixResult.appliedFixes) = Len(analysis.issues)
    /\ fixResult.summary.total = fixResult.summary.successful + fixResult.summary.failed
    /\ fixResult.summary.total = Len(analysis.issues)
    /\ fixResult.summary.successful = CountSuccess(fixResult.appliedFixes)
    /\ \A g \in 1..Len(groups) :
         /\ Len(GroupRecords(g)) = Len(groups[g].issues)
         /\ \A id \in IdsOf(groups[g].issues) :
              WithIssueId(GroupRecords(g), id) = WithId(groups[g].issues, id)
         /\ perms[groups[g].file] # "rw" =>
              /\ \A k \in 1..Len(GroupRecords(g)) : ~GroupRecords(g)[k].success
              /\ groups[g].file \notin DOMAIN fixResult.transformedFiles
         /\ perms[groups[g].file] = "rw" =>
              groups[g].file \in DOMAIN fixResult.transformedFiles

C10_Witness ==
  /\ epc = "fixed"
  /\ Len(groups) = 2
  /\ perms[groups[1].file] # "rw"
  /\ perms[groups[2].file] = "rw"
  /\ fixResult.summary.failed = Len(groups[1].issues)
  /\ fixResult.summary.successful >= 1

\* --------------------------------------- properties of scan, fix, scan
TypesOf(is) == {is[k].type : k \in 1..Len(is)}

\* C11: when the first scan reports sql-injection, no-error-handling and
\* hardcoded-secret issues and fix records every one of them as fixed, the
\* scan after the fix has a strictly higher score and strictly fewer issues
C11_RescanImproves ==
  (/\ epc = "rescanned"
   /\ {"sql-injection", "no-error-handling", "hardcoded-secret"} \subseteq TypesOf(analysis.issues)
   /\ fixResult.summary.failed = 0) =>
    /\ reAnalysis.score > analysis.score
    /\ Len(reAnalysis.issues) < Len(analysis.issues)

\* ------------------------------------------------------ properties: preview
\* the issues whose type has a registered fixer, in the order given
RECURSIVE WithFixer(_, _)
WithFixer(fx, is) ==
  IF is = <<>> THEN <<>>
  ELSE IF FixerGet(fx, Head(is).type) = "none" THEN WithFixer(fx, Tail(is))
       ELSE <<Head(is)>> \o WithFixer(fx, Tail(is))

IsFallback(pv) == pv.diff = <<>>

\* C12: preview is a dry run.  While it runs and when it returns, the source
\* text and the fixer registry are what they were when it was called; it
\* always returns; the previews it returns are one per issue whose type has
\* a registered fixer, in the order of the issues, and each that is not the
\* fallback of a throwing fixer shows as its original text the printed form of
\* the source preview was called with; a transform of the same source and
\* issues after the preview returns what transform returns without it.
C12_PreviewIsDryRun ==
  /\ [][ppc = "loop" => (fixers' = fixers /\ code' = code /\ issues' = issues)]_vars
  /\ [](ppc = "done" =>
          LET expected == WithFixer(fixers, issues)
          IN /\ Len(previews) = Len(expected)
             /\ \A k \in 1..Len(previews) :
                  /\ previews[k].issueId = expected[k].id
                  /\ ~IsFallback(previews[k]) =>
                       previews[k].diff[1] = generateCode(parse(code).ast))
  /\ []((ppc = "done" /\ tpc = "done") =>
          /\ transformedCode = transform(fixers, code, issues).transformedCode
          /\ appliedFixes = transform(fixers, code, issues).appliedFixes)

\* a preview of two issues has returned the fallback for a throwing fixer and
\* the preview of a fixer that did not throw, one of them by a fixer that does
\* not accept the issue's type, and the transform that followed has returned
C12_Witness ==
  /\ ppc = "done"
  /\ tpc = "done"
  /\ Len(issues) = 2
  /\ Len(previews) = 2
  /\ \E k \in 1..2 : IsFallback(previews[k])
  /\ \E k \in 1..2 : ~IsFallback(previews[k])
  /\ \E k \in 1..2 : ~canFix(FixerGet(fixers, issues[k].type), issues[k])

\* ------------------------------------------- properties: conflicting fixes
Accepts(issue) ==
  /\ FixerGet(fixers, issue.type) # "none"
  /\ canFix(FixerGet(fixers, issue.type), issue)

Succeeded(id) == \E j \in RecordsOf(id) : appliedFixes[j].success

\* C13: of two issues on the same line, each with a registered fixer that
\* accepts it, a transform that has returned records exactly one as successful
C13_OneOfTwoConflictingFixes ==
  tpc = "done" =>
    \A i, j \in 1..Len(issues) :
      (/\ i < j
       /\ issues[i].line = issues[j].line
       /\ Accepts(issues[i])
       /\ Accepts(issues[j])) =>
        Cardinality({k \in {i, j} : Succeeded(issues[k].id)}) = 1

\* ------------------------------------------------ properties: two calls
\* C14: of two transform calls on one engine that run interleaved, each
\* returns the transformedCode and the ledger that transform returns for its
\* source and issues when run alone, and no step of one call changes a local
\* of the other
C14_ConcurrentCallsAreIndependent ==
  /\ [](tpc = "done" =>
          /\ transformedCode = transform(fixers, code, issues).transformedCode
          /\ appliedFixes = transform(fixers, code, issues).appliedFixes)
  /\ [](tpc2 = "done" =>
          /\ transformedCode2 = transform(fixers, code2, issues2).transformedCode
          /\ appliedFixes2 = transform(fixers, code2, issues2).appliedFixes)
  /\ [][tvars' # tvars => cvars' = cvars]_vars

\* both calls have returned, each after a successful fix that changed its
\* text, and the two texts differ
C14_Witness ==
  /\ tpc = "done"
  /\ tpc2 = "done"
  /\ code # code2
  /\ transformedCode # code
  /\ transformedCode2 # code2
  /\ \E j \in 1..Len(appliedFixes) : appliedFixes[j].success
  /\ \E j \in 1..Len(appliedFixes2) : appliedFixes2[j].success

\* ---------------------------------------------- properties: line stability
StartsStatement(text, i) == text[i] \notin {"blank", "cont", "envcont"}

\* the number of statements of a text that start on one of its first n lines
OrdinalAt(text, n) == Cardinality({i \in 1..Min(n, Len(text)) : StartsStatement(text, i)})

\* the line on which the n-th statement of a text starts; 0 if it has fewer
LineOfStatement(text, n) ==
  LET at == {i \in 1..Len(text) : StartsStatement(text, i) /\ OrdinalAt(text, i) = n}
  IN IF at = {} THEN 0 ELSE CHOOSE i \in at : TRUE

\* C15: a pass of the loop that commits a fix for the issue at hand leaves
\* the statement of every issue still to be processed that lies on an earlier
\* line on the line it was on before the pass
C15_EarlierLinesStay ==
  [][(/\ tpc = "loop"
      /\ idx <= Len(sortedIssues)
      /\ Len(appliedFixes') = Len(appliedFixes) + 1
      /\ appliedFixes'[Len(appliedFixes')].success) =>
       \A k \in (idx + 1)..Len(sortedIssues) :
         sortedIssues[k].line < sortedIssues[idx].line =>
           LET n == OrdinalAt(code, sortedIssues[k].line)
           IN LineOfStatement(transformedCode', n) = LineOfStatement(transformedCode, n)]_vars

\* --------------------------------------------------- properties: detectors
\* the issues of a type that a returned scan reports for a line of a file
ReportedAt(type, file, line) ==
  {k \in 1..Len(analysis.issues) :
     /\ analysis.issues[k].type = type
     /\ analysis.issues[k].file = file
     /\ analysis.issues[k].line = line}

Reported(type, file) ==
  {k \in 1..Len(analysis.issues) :
     analysis.issues[k].type = type /\ analysis.issues[k].file = file}

\* query calls whose first argument is a concatenation or a template literal
\* with an expression
UnsafeQueryTokens == {"sqlcat", "sqlvar", "sqlcat2", "sqltpl"}

\* C16: for a source in which every query call passes a plain string literal
\* as its first argument (with or without a parameters argument), whatever
\* calls to other methods it holds, the scan reports no sql-injection issue
C16_SafeQueriesNotReported ==
  (/\ epc = "scanned"
   /\ \A i \in 1..Len(fs[Files[1]]) : fs[Files[1]][i] \notin UnsafeQueryTokens) =>
    Reported("sql-injection", Files[1]) = {}

\* a scan has returned for a source that holds a parameterized query call and
\* a concatenation passed to a method that is no query method
C16_Witness ==
  /\ epc = "scanned"
  /\ \E i \in 1..Len(fs[Files[1]]) : fs[Files[1]][i] = "sqlpar"
  /\ \E i \in 1..Len(fs[Files[1]]) : fs[Files[1]][i] = "logcat"
  /\ Len(analysis.issues) > 0

\* C17: no sql-injection issue that a scan reports lies on a line whose query
\* call passes a second argument
C17_SecondArgumentNotReported ==
  epc = "scanned" =>
    \A k \in Reported("sql-injection", Files[1]) :
      ~HasSecondArg(fs[Files[1]][analysis.issues[k].line])

\* C19: for a source that parses, the scan reports exactly one
\* no-error-handling issue on the start line of every async function that awaits, has no try statement of its own
\* and is not the argument of asyncHandler, and none on the start line of an
\* async function that has its own try statement or is the argument of
\* asyncHandler
C19_AsyncWithoutTryReported ==
  (epc = "scanned" /\ ~BabelThrows(fs[Files[1]])) =>
    \A i \in 1..Len(fs[Files[1]]) :
      LET tok == fs[Files[1]][i]
          n == Cardinality(ReportedAt("no-error-handling", Files[1], i))
      IN /\ tok \in {"afn", "aarrow", "afncb"} => n = 1
         /\ tok \in {"afntry", "afnwrap"} => n = 0

\* a scan has returned for a source that holds an async function whose only
\* try statement is inside a nested callback, followed by one that has its own
C19_Witness ==
  /\ epc = "scanned"
  /\ \E i \in 1..Len(fs[Files[1]]) : fs[Files[1]][i] = "afncb"
  /\ \E i \in 1..Len(fs[Files[1]]) : fs[Files[1]][i] \in {"afntry", "afnwrap"}
  /\ Cardinality(Reported("no-error-handling", Files[1])) = 1

\* C21: for a source that parses, the scan reports no unhandled-promise
\* issue on the line of a chain in which a .catch call follows the .then call,
\* and exactly one on the line of a .then call that no .catch follows
C21_CaughtPromiseNotReported ==
  (epc = "scanned" /\ ~BabelThrows(fs[Files[1]])) =>
    \A i \in 1..Len(fs[Files[1]]) :
      LET tok == fs[Files[1]][i]
          n == Cardinality(ReportedAt("unhandled-promise", Files[1], i))
      IN /\ tok \in {"thencatch", "thenfixed"} => n = 0
         /\ tok = "then" => n = 1

\* C22: every defect is reported once.  A scan of a file made of one insecure
\* query call, one async function that awaits without a try statement and one
\* declaration of a secret string literal returns totalIssues = 3, and no
\* line that declares one secret string literal has more than one
\* hardcoded-secret issue
C22_EachDefectReportedOnce ==
  epc = "scanned" =>
    LET text == fs[Files[1]]
    IN /\ (/\ Len(text) = 3
           /\ Count(text, "sqlcat") = 1
           /\ Count(text, "secret") = 1
           /\ Count(text, "afn") + Count(text, "aarrow") = 1) =>
            analysis.totalIssues = 3
       /\ \A i \in 1..Len(text) :
            text[i] = "secret" =>
              Cardinality(ReportedAt("hardcoded-secret", Files[1], i)) <= 1

\* ------------------------------------------- properties: parameterization
RECURSIVE NonLiterals(_)
NonLiterals(ps) ==
  IF ps = <<>> THEN <<>>
  ELSE IF isStringLiteral(Head(ps)) THEN NonLiterals(Tail(ps))
       ELSE <<Head(ps).id>> \o NonLiterals(Tail(ps))

\* the query text with one question mark in the place of every non-literal part
RECURSIVE Parameterized(_)
Parameterized(ps) ==
  IF ps = <<>> THEN <<>>
  ELSE (IF isStringLiteral(Head(ps)) THEN LiteralValue(Head(ps)) ELSE <<Placeholder>>)
       \o Parameterized(Tail(ps))

Placeholders(str) == Cardinality({k \in 1..Len(str) : str[k] = Placeholder})

\* C18: for a + chain of string literals that hold no question mark and of
\* non-literal parts, the call returns the query text with exactly one question
\* mark where each non-literal part stood and the non-literal parts, in the
\* order met, as parameters: as many question marks as parameters
C18_OnePlaceholderPerPart ==
  (/\ qpc = "done"
   /\ \A i \in 1..Len(parts) : parts[i].kind # "litq") =>
    /\ ~queryResult.threw
    /\ queryResult.query = Parameterized(parts)
    /\ queryResult.parameters = NonLiterals(parts)
    /\ Placeholders(queryResult.query) = Len(queryResult.parameters)

\* --------------------------------------------------- properties: fixpoint
\* C20: after the error-handling fixer has been applied for a reported
\* no-error-handling issue, the detector run on the fixed text reports no
\* no-error-handling issue on the start line of the function the issue was
\* reported for
C20_FixedFunctionNotReported ==
  (dpc = "done" /\ appliedFixes[1].success) =>
    LET n == OrdinalAt(code, issues[1].line)
        at == LineOfStatement(transformedCode, n)
    IN \A k \in 1..Len(redetected) : redetected[k].line # at

\* ----------------------------------------------------- properties: fixers
\* the token on the line where the n-th statement of a text starts
StatementAt(text, n) ==
  IF LineOfStatement(text, n) = 0 THEN "none" ELSE text[LineOfStatement(text, n)]

\* the line on which the object literal that holds line i opens
ObjectStart(text, i) ==
  LET opens == {j \in 1..i : text[j] = "cfg"}
  IN IF opens = {} THEN 0 ELSE CHOOSE j \in opens : \A k \in opens : k <= j

\* a transform of one issue of the given type at a line of the source
OneIssue(type) ==
  /\ tpc = "done"
  /\ Len(issues) = 1
  /\ issues[1].type = type
  /\ issues[1].line \in 1..Len(code)

\* C23: after the secrets fixer has been applied once for an issue on the line
\* of a property that holds a secret string literal, every property of that
\* object literal that held a string literal reads an environment variable
C23_ObjectSecretsReplaced ==
  (OneIssue("hardcoded-secret") /\ code[issues[1].line] = "proplit") =>
    \A i \in 1..Len(code) :
      (/\ code[i] = "proplit"
       /\ ObjectStart(code, i) = ObjectStart(code, issues[1].line)) =>
        StatementAt(transformedCode, OrdinalAt(code, i)) = "propenv"

\* the elements of a parsed body that a fix left different
ChangedBy(before, after) ==
  {j \in 1..Len(before) : j > Len(after) \/ after[j] # before[j]}

FixedOnce == transform(fixers, code, <<issues[1]>>).transformedCode

\* C25: a fixer applied a second time for the same issue (one that carries a
\* line), to the code it has already fixed for that issue, changes nothing
\* further
C25_FixIsIdempotent ==
  (/\ tpc = "done"
   /\ Len(issues) = 2
   /\ issues[1].line >= 1
   /\ issues[1].type \in {"no-error-handling", "unhandled-promise", "hardcoded-secret"}) =>
    transformedCode = FixedOnce

\* the environment variable the claim gives a call with a secret argument
ExpectedEnvCall(kind) ==
  IF kind = "secreq" THEN "reqstripe"
  ELSE IF kind = "seccall" THEN "callstripe"
  ELSE "callapi"

\* C28: a secret argument of a call whose callee is named after stripe, or of a
\* call on the result of require('stripe'), is replaced by a read of
\* STRIPE_SECRET_KEY; API_SECRET is used only where no provider is named
C28_StripeContextNamesStripeKey ==
  OneIssue("hardcoded-secret") =>
    \A i \in 1..Len(code) :
      (/\ code[i] \in SecretCallTokens
       /\ StatementAt(transformedCode, OrdinalAt(code, i)) \in EnvCallTokens) =>
        StatementAt(transformedCode, OrdinalAt(code, i)) = ExpectedEnvCall(code[i])

\* ------------------------------------------------ properties: the ledger
\* C29: while the ledger holds no record with success = true the running text
\* is the source transform was called with, and a step of the loop changes the
\* running text only if the record it appends has success = true
C29_TextChangesOnlyWithSuccess ==
  [][/\ (tpc' \in {"loop", "done"} /\ Successes' = {}) => transformedCode' = code'
     /\ (tpc = "loop" /\ transformedCode' # transformedCode) =>
          /\ Len(appliedFixes') = Len(appliedFixes) + 1
          /\ appliedFixes'[Len(appliedFixes')].success]_vars

\* a transform of a source with a blank line, which a reprint would drop,
\* returned with two failed records and no successful one
C29_Witness ==
  /\ tpc = "done"
  /\ Len(sortedIssues) >= 2
  /\ Len(appliedFixes) = Len(sortedIssues)
  /\ Successes = {}
  /\ Count(code, "blank") >= 1
  /\ transformedCode = code

\* ------------------------------------------------- properties: fix's files
\* the files that have an issue in the analysis result
FilesWithIssues == {analysis.issues[k].file : k \in 1..Len(analysis.issues)}

\* C30: fix handles only files that have an issue in the analysis result it
\* was given, handles and writes each of them at most once, changes no other
\* file, and leaves the analysis result as it was
C30_FixTouchesOnlyFilesWithIssues ==
  [][epc = "fix" =>
       /\ analysis' = analysis
       /\ groupIdx' # groupIdx =>
            /\ groups[groupIdx].file \in FilesWithIssues
            /\ \A g \in 1..(groupIdx - 1) : groups[g].file # groups[groupIdx].file
            /\ groups[groupIdx].file \notin DOMAIN transformedFiles
            /\ \A f \in FileSet :
                 (fs'[f] # fs[f] \/ f \in DOMAIN transformedFiles' \ DOMAIN transformedFiles)
                   => f = groups[groupIdx].file
       /\ groupIdx' = groupIdx => fs' = fs /\ transformedFiles' = transformedFiles]_vars

\* a fix that wrote the first file, which had two issues, and left alone the
\* second, a writable file with text and no issue
C30_Witness ==
  /\ epc = "fixed"
  /\ DOMAIN fixResult.transformedFiles = {Files[1]}
  /\ Cardinality({k \in 1..Len(analysis.issues) : analysis.issues[k].file = Files[1]}) >= 2
  /\ Files[2] \notin FilesWithIssues
  /\ perms[Files[2]] = "rw"
  /\ fs[Files[2]] # <<>>

\* ------------------------------------------------- properties: analyze
\* C26: two calls of one analyzer on the same AST with the same Context
\* return equal issue lists (ids, types, severities, lines, order), whatever
\* other analyzers were called in between
C26_AnalyzeIsDeterministic ==
  \A i \in 1..Len(calls) : \A j \in 1..Len(calls) :
    calls[i].analyzer = calls[j].analyzer => calls[i].issues = calls[j].issues

\* C27: when the issues an analyzer returned are handed to transform, a
\* function with a no-error-handling issue that comes out wrapped has the
\* payment catch clause if the Context of the detection had isPaymentCode, and
\* the catch clause that re-throws the original error if it had not and the
\* function is not named after payment
C27_PaymentContextGivesPaymentCatch ==
  (tpc = "done" /\ calls # <<>> /\ issues = calls[Len(calls)].issues) =>
    \A k \in 1..Len(issues) :
      issues[k].type = "no-error-handling" =>
        LET line == issues[k].line
            out == StatementAt(transformedCode, OrdinalAt(code, line))
        IN out \in WrappedTokens =>
             /\ context.isPaymentCode => out \in PaymentWrappedTokens
             /\ (~context.isPaymentCode /\ ~isPaymentFunction(code[line])) =>
                  out \notin PaymentWrappedTokens
====
